---------------------------- MODULE Spec2Model ----------------------------
(***************************************************************************)
(* Model of the DHIS2 AI Insights data layer:                              *)
(*   - getActualPeriod               (src/src/utils/dhis2Data.js)          *)
(*   - fetchDataForElements          (src/src/utils/dhis2Data.js)          *)
(*   - calculateSummary              (src/src/utils/dhis2Data.js)          *)
(*   - DataDashboard.loadData / processDataForVisualization                *)
(*                                   (src/unnamed/part_003)                *)
(*                                                                         *)
(* Strings that the code inspects character by character (period ids,     *)
(* value cells) are sequences of one-character strings, so that            *)
(* formatting, parsing and comparison are modelled by what they do.        *)
(***************************************************************************)
EXTENDS Integers, Sequences, FiniteSets, TLC

VARIABLES
    pc,                    \* position of the operation under study
    now,                   \* the current date: [year, month, day]
    relativePeriod,        \* the period selection (selectedPeriod / period)
    periodValue,           \* result of getActualPeriod: its ';'-separated segments
    caller,                \* who calls fetchDataForElements
    selectedDataElements,  \* the item selection held by the caller
    dataElements,          \* argument of fetchDataForElements
    orgUnit,               \* argument of fetchDataForElements
    engine,                \* what the external collaborators will answer
    deIds,                 \* local of fetchDataForElements: the dx dimension
    ouDimension,           \* local of fetchDataForElements: the ou dimension
    multiOrgUnitMode,      \* local of fetchDataForElements
    childOrgUnits,         \* local of fetchDataForElements
    calls,                 \* the external queries issued so far, in order
    result,                \* what fetchDataForElements returned or threw
    chartData,             \* DataDashboard state
    tableData,             \* DataDashboard state
    error,                 \* DataDashboard state
    sortConfig,            \* DataDashboard state
    loads,                 \* DataDashboard: the loadData invocations started
    chat,                  \* AIQuerySelection state and its submissions
    selector,              \* DatasetSelector state and its pending handlers
    storage                \* the response cache kept in localStorage

vars == <<pc, now, relativePeriod, periodValue, caller, selectedDataElements,
          dataElements, orgUnit, engine, deIds, ouDimension, multiOrgUnitMode,
          childOrgUnits, calls, result, chartData, tableData, error, sortConfig,
          loads, chat, selector, storage>>

inputVars == <<now, relativePeriod, selectedDataElements, orgUnit, engine>>
fetchVars == <<caller, dataElements, deIds, ouDimension, multiOrgUnitMode,
               childOrgUnits, calls, result>>
dashVars == <<chartData, tableData, error, sortConfig>>
componentVars == <<loads, chat, selector, storage>>

(***************************************************************************)
(* Bounds of the model.                                                    *)
(***************************************************************************)
FirstYear == 2024
NumYears == 2
MaxElements == 3      \* longest dataElements array
MaxChildren == 2      \* most child units the metadata query returns
MaxRows == 3          \* most rows in an analytics response
MaxPeriods == 2       \* most periods the server holds data for

Years == FirstYear .. (FirstYear + NumYears - 1)
Months == 1 .. 12

\* A value no variable of the operation under study holds yet.
None == "none"

\* The components outside the operation under study, as they are mounted:
\* no load started, no query submitted, the checkbox clear, the cache empty.
ComponentsIdle ==
    /\ loads = <<>>
    /\ chat = [dataSnapshot |-> [fetchedFor |-> None], submissions |-> <<>>, sent |-> <<>>]
    /\ selector = [includeChildOrgUnits |-> FALSE, pending |-> <<>>]
    /\ storage = [cache |-> <<>>, returned |-> <<>>]

(***************************************************************************)
(* Characters and strings.                                                 *)
(***************************************************************************)
DigitChars == <<"0", "1", "2", "3", "4", "5", "6", "7", "8", "9">>

IsDigit(c) == \E i \in 1..10 : DigitChars[i] = c

DigitVal(c) == (CHOOSE i \in 1..10 : DigitChars[i] = c) - 1

\* String(n) for a non-negative integer n.
RECURSIVE ToStr(_)
ToStr(n) == IF n < 10 THEN <<DigitChars[n + 1]>>
            ELSE Append(ToStr(n \div 10), DigitChars[(n % 10) + 1])

\* String(month).padStart(2, '0')
PadStart2(s) == IF Len(s) < 2 THEN <<"0">> \o s ELSE s

\* formatYearMonth(year, month) of getActualPeriod
formatYearMonth(year, month) == ToStr(year) \o PadStart2(ToStr(month))

\* parseInt(s) / parseFloat(s) on a string of the model: the number spelled by
\* the leading digits; NaN when the string does not start with a digit.
\* (The value cells and period ids of the model carry no sign, exponent or
\* decimal point.)
StartsWithDigit(s) == Len(s) > 0 /\ IsDigit(s[1])

RECURSIVE LeadingDigits(_)
LeadingDigits(s) == IF Len(s) = 0 \/ ~IsDigit(s[1]) THEN <<>>
                    ELSE <<s[1]>> \o LeadingDigits(Tail(s))

RECURSIVE DigitsValue(_)
DigitsValue(ds) == IF Len(ds) = 0 THEN 0
                   ELSE 10 * DigitsValue(SubSeq(ds, 1, Len(ds) - 1))
                        + DigitVal(ds[Len(ds)])

IsNaNParse(s) == ~StartsWithDigit(s)
parseInt(s) == DigitsValue(LeadingDigits(s))
parseFloat(s) == DigitsValue(LeadingDigits(s))

\* Collation rank of a character for String.prototype.localeCompare:
\* punctuation before digits before letters; words that the code never looks
\* inside are single characters of the model and rank as letters.
CharOrder == <<"-", "_", "0", "1", "2", "3", "4", "5", "6", "7", "8", "9",
               "a", "A", "b", "B", "c", "c1", "c2", "Q", "u1", "u2", "X">>

CharRank(c) == IF \E i \in 1..Len(CharOrder) : CharOrder[i] = c
               THEN CHOOSE i \in 1..Len(CharOrder) : CharOrder[i] = c
               ELSE Len(CharOrder) + 1

\* a.localeCompare(b): negative, zero or positive.
RECURSIVE localeCompare(_, _)
localeCompare(a, b) ==
    IF Len(a) = 0 /\ Len(b) = 0 THEN 0
    ELSE IF Len(a) = 0 THEN -1
    ELSE IF Len(b) = 0 THEN 1
    ELSE IF CharRank(a[1]) < CharRank(b[1]) THEN -1
    ELSE IF CharRank(a[1]) > CharRank(b[1]) THEN 1
    ELSE localeCompare(Tail(a), Tail(b))

\* Array.prototype.sort(compare): a stable sort.  For a comparator that is
\* consistent, element i ends after exactly the elements that compare below
\* it and the equal elements that stood before it.
SortBy(s, Compare(_, _)) ==
    LET n == Len(s)
        Before(j, i) == \/ Compare(s[j], s[i]) < 0
                        \/ (Compare(s[i], s[j]) = 0 /\ j < i)
        pos(i) == Cardinality({j \in 1..n : j # i /\ Before(j, i)}) + 1
    IN  [k \in 1..n |-> s[CHOOSE i \in 1..n : pos(i) = k]]

\* Array.from(new Set(s)): the distinct elements in first-occurrence order.
RECURSIVE Unique(_)
Unique(s) ==
    IF Len(s) = 0 THEN <<>>
    ELSE LET front == Unique(SubSeq(s, 1, Len(s) - 1))
             x == s[Len(s)]
         IN  IF \E i \in 1..Len(front) : front[i] = x THEN front
             ELSE Append(front, x)

Range(s) == {s[i] : i \in 1..Len(s)}

Map(s, F(_)) == [i \in 1..Len(s) |-> F(s[i])]

(***************************************************************************)
(* getActualPeriod                                                         *)
(***************************************************************************)
PeriodTokens == {"THIS_MONTH", "LAST_MONTH", "THIS_QUARTER", "LAST_QUARTER",
                 "THIS_YEAR", "LAST_YEAR", "LAST_12_MONTHS"}

\* A relative period the analytics server understands but the enumeration
\* of getActualPeriod does not.
UnknownTokens == {"LAST_6_MONTHS", "LAST_4_QUARTERS", "LAST_5_YEARS"}

\* Mutant of Last12Loop: the month wraps to 12 but the year is not decremented.
RECURSIVE Last12LoopNoYearRollover(_, _, _, _)
Last12LoopNoYearRollover(i, year, month, periods) ==
    IF i >= 12 THEN periods
    ELSE LET pushed == Append(periods, formatYearMonth(year, month))
         IN  IF month - 1 = 0
             THEN Last12LoopNoYearRollover(i + 1, year, 12, pushed)
             ELSE Last12LoopNoYearRollover(i + 1, year, month - 1, pushed)

\* The for loop of case 'LAST_12_MONTHS': push, then move back one month.
RECURSIVE Last12Loop(_, _, _, _)
Last12Loop(i, year, month, periods) ==
    IF i >= 12 THEN periods
    ELSE LET pushed == Append(periods, formatYearMonth(year, month))
         IN  IF month - 1 = 0
             THEN Last12Loop(i + 1, year - 1, 12, pushed)
             ELSE Last12Loop(i + 1, year, month - 1, pushed)

\* Mutant of getActualPeriod: the previous month and the previous quarter
\* are computed without the step into the previous year.
getActualPeriodNoRollover(token, n) ==
    LET currentYear == n.year
        currentMonth == n.month
        lastYear == currentYear - 1
    IN  CASE token = "THIS_MONTH" ->
                <<formatYearMonth(currentYear, currentMonth)>>
          [] token = "LAST_MONTH" ->
                <<formatYearMonth(currentYear, currentMonth - 1)>>
          [] token = "THIS_YEAR" -> <<ToStr(currentYear)>>
          [] token = "LAST_YEAR" -> <<ToStr(lastYear)>>
          [] token = "LAST_12_MONTHS" ->
                Last12Loop(0, currentYear, currentMonth, <<>>)
          [] token = "THIS_QUARTER" ->
                <<ToStr(currentYear) \o <<"Q">>
                    \o ToStr(((currentMonth - 1) \div 3) + 1)>>
          [] token = "LAST_QUARTER" ->
                <<ToStr(currentYear) \o <<"Q">> \o ToStr((currentMonth - 1) \div 3)>>
          [] OTHER -> << <<token>> >>

\* Mutant of getActualPeriod: every token resolves to the current month.
getActualPeriodThisMonth(token, n) == <<formatYearMonth(n.year, n.month)>>

\* getActualPeriod(relativePeriod) evaluated at date n.  The result is the
\* sequence of the ';'-separated segments of the returned string.
getActualPeriod(token, n) ==
    LET currentYear == n.year
        currentMonth == n.month
        lastYear == currentYear - 1
    IN  CASE token = "THIS_MONTH" ->
                <<formatYearMonth(currentYear, currentMonth)>>
          [] token = "LAST_MONTH" ->
                IF currentMonth = 1
                THEN <<formatYearMonth(lastYear, 12)>>
                ELSE <<formatYearMonth(currentYear, currentMonth - 1)>>
          [] token = "THIS_YEAR" -> <<ToStr(currentYear)>>
          [] token = "LAST_YEAR" -> <<ToStr(lastYear)>>
          [] token = "LAST_12_MONTHS" ->
                Last12Loop(0, currentYear, currentMonth, <<>>)
          [] token = "THIS_QUARTER" ->
                <<ToStr(currentYear) \o <<"Q">>
                    \o ToStr(((currentMonth - 1) \div 3) + 1)>>
          [] token = "LAST_QUARTER" ->
                LET q == (currentMonth - 1) \div 3
                IN  IF q = 0
                    THEN <<ToStr(lastYear) \o <<"Q">> \o ToStr(4)>>
                    ELSE <<ToStr(currentYear) \o <<"Q">> \o ToStr(q)>>
          [] OTHER -> << <<token>> >>  \* default: "using as-is"

(***************************************************************************)
(* JavaScript objects used as dictionaries: a sequence of [key, val]       *)
(* entries in insertion order.                                             *)
(***************************************************************************)
ObjHas(o, k) == \E i \in 1..Len(o) : o[i].key = k

ObjGet(o, k) == o[CHOOSE i \in 1..Len(o) : o[i].key = k].val

\* o[k] = v : an existing key keeps its place, a new key goes last.
ObjPut(o, k, v) ==
    IF ObjHas(o, k)
    THEN [i \in 1..Len(o) |-> IF o[i].key = k THEN [key |-> k, val |-> v] ELSE o[i]]
    ELSE Append(o, [key |-> k, val |-> v])

ObjKeys(o) == [i \in 1..Len(o) |-> o[i].key]

\* A property name that is a canonical array index ("202412", "2024"): such
\* keys are enumerated first, in ascending numeric order.
IsIndexKey(k) ==
    /\ Len(k) > 0
    /\ Len(k) < 10
    /\ \A i \in 1..Len(k) : IsDigit(k[i])
    /\ (Len(k) > 1 => k[1] # "0")

CompareIndexKeys(a, b) == DigitsValue(a.key) - DigitsValue(b.key)

\* Object.entries(o) / Object.values(o) order.
ObjEntries(o) ==
    SortBy(SelectSeq(o, LAMBDA e : IsIndexKey(e.key)), CompareIndexKeys)
        \o SelectSeq(o, LAMBDA e : ~IsIndexKey(e.key))

(***************************************************************************)
(* The analytics response: headers is the sequence of column names, a row  *)
(* is the sequence of its cells, metaData.items maps ids to display names  *)
(* (an id outside its domain has no entry; an empty name is falsy).        *)
(***************************************************************************)
Undefined == <<"undefined">>
Null == <<>>

\* headers.findIndex(h => h.name === name): 0-based, -1 when absent.
findIndex(headers, name) ==
    IF \E i \in 1..Len(headers) : headers[i] = name
    THEN (CHOOSE i \in 1..Len(headers) :
             headers[i] = name /\ \A j \in 1..(i - 1) : headers[j] # name) - 1
    ELSE -1

\* row[index]
Cell(row, index) ==
    IF index >= 0 /\ index < Len(row) THEN row[index + 1] ELSE Undefined

\* metaData.items[id] is present
HasMeta(items, id) == id \in DOMAIN items

MonthNames == <<"January", "February", "March", "April", "May", "June",
                "July", "August", "September", "October", "November",
                "December">>

AllDigits(s) == \A i \in 1..Len(s) : IsDigit(s[i])

\* formatPeriodId of calculateSummary
summaryFormatPeriodId(periodId) ==
    IF Len(periodId) = 0 THEN periodId
    ELSE IF Len(periodId) = 6 /\ AllDigits(periodId)
    THEN LET year == SubSeq(periodId, 1, 4)
             month == parseInt(SubSeq(periodId, 5, 6))
         IN  (IF month \in 1..12 THEN <<MonthNames[month]>> ELSE Undefined)
                 \o <<" ">> \o year
    ELSE IF Len(periodId) = 6 /\ AllDigits(SubSeq(periodId, 1, 4))
            /\ periodId[5] = "Q" /\ IsDigit(periodId[6])
    THEN <<"Q", periodId[6], " ">> \o SubSeq(periodId, 1, 4)
    ELSE IF Len(periodId) = 4 /\ AllDigits(periodId)
    THEN <<"Year", " ">> \o periodId
    ELSE periodId

(***************************************************************************)
(* Numbers.  The value cells are non-negative integers; a quotient is kept *)
(* as the number of hundredths that toFixed(2) prints.                     *)
(***************************************************************************)
RECURSIVE SumSeq(_)
SumSeq(v) == IF Len(v) = 0 THEN 0 ELSE v[1] + SumSeq(Tail(v))

MinSeq(v) == CHOOSE x \in Range(v) : \A y \in Range(v) : x <= y
MaxSeq(v) == CHOOSE x \in Range(v) : \A y \in Range(v) : x >= y

\* The hundredths of (numer / denom).toFixed(2): nearest, ties upward.
Hundredths(numer, denom) == (200 * numer + denom) \div (2 * denom)

\* (numer / denom).toFixed(2) as a string
toFixed2(numer, denom) ==
    LET h == Hundredths(numer, denom)
    IN  ToStr(h \div 100) \o <<".">> \o PadStart2(ToStr(h % 100))

CompareNumbers(a, b) == a - b

\* Mutant of Statistic: the mean is the midpoint of the extremes.
StatisticMidrange(values) ==
    LET sum == SumSeq(values)
        sortedValues == SortBy(values, CompareNumbers)
        middle == Len(sortedValues) \div 2
    IN  [count |-> Len(values),
         min |-> MinSeq(values),
         max |-> MaxSeq(values),
         mean |-> toFixed2(MinSeq(values) + MaxSeq(values), 2),
         median |-> IF Len(sortedValues) % 2 = 0
                    THEN toFixed2(sortedValues[middle] + sortedValues[middle + 1], 2)
                    ELSE toFixed2(sortedValues[middle + 1], 1),
         sum |-> toFixed2(sum, 1)]

\* Mutant of Statistic: the median is the upper central value for every count.
StatisticUpperMedian(values) ==
    LET sum == SumSeq(values)
        sortedValues == SortBy(values, CompareNumbers)
        middle == Len(sortedValues) \div 2
    IN  [count |-> Len(values),
         min |-> MinSeq(values),
         max |-> MaxSeq(values),
         mean |-> toFixed2(sum, Len(values)),
         median |-> toFixed2(sortedValues[middle + 1], 1),
         sum |-> toFixed2(sum, 1)]

\* The statistic object calculateSummary builds from a non-empty value list.
Statistic(values) ==
    LET sum == SumSeq(values)
        sortedValues == SortBy(values, CompareNumbers)
        middle == Len(sortedValues) \div 2
    IN  [count |-> Len(values),
         min |-> MinSeq(values),
         max |-> MaxSeq(values),
         mean |-> toFixed2(sum, Len(values)),
         median |-> IF Len(sortedValues) % 2 = 0
                    THEN toFixed2(sortedValues[middle] + sortedValues[middle + 1], 2)
                    ELSE toFixed2(sortedValues[middle + 1], 1),
         sum |-> toFixed2(sum, 1)]

(***************************************************************************)
(* calculateSummary                                                        *)
(***************************************************************************)
\* The values of the rows rs, in row order.
RowValues(rs, valueIndex) ==
    [i \in 1..Len(rs) |-> parseFloat(Cell(rs[i], valueIndex))]

\* metaData.items[deId].name || deId, deId when there is no entry
ResolveName(items, id) ==
    IF HasMeta(items, id) /\ Len(items[id]) > 0 THEN items[id] ELSE id

\* metaData.items[peId].name || formatPeriodId(peId), the latter also when
\* there is no entry
ResolvePeriodName(items, peId) ==
    IF HasMeta(items, peId) /\ Len(items[peId]) > 0 THEN items[peId]
    ELSE summaryFormatPeriodId(peId)

\* Mutant of SortTimeSeries: the points stay in encounter order.
SortTimeSeriesUnsorted(periodValues) == periodValues

\* periodValues.sort((a, b) => a.period.localeCompare(b.period))
SortTimeSeries(periodValues) ==
    SortBy(periodValues, LAMBDA a, b : localeCompare(a.period, b.period))

\* Mutant of IsSummarized: every row enters the statistics.
IsSummarizedAlways(cell) == TRUE

\* Line 520: if (!isNaN(value)), value being parseFloat of the cell
IsSummarized(cell) == ~IsNaNParse(cell)

\* { [deName]: statistic } for an object deId -> values, filled in the
\* object's enumeration order (a later equal name overwrites).
RECURSIVE StatsByName(_, _, _)
StatsByName(entries, items, acc) ==
    IF Len(entries) = 0 THEN acc
    ELSE StatsByName(Tail(entries), items,
            ObjPut(acc, ResolveName(items, entries[1].key),
                   Statistic(entries[1].val)))

\* Lines 509-560: the rows with a number, grouped by item, by period, by org
\* unit (multi-org-unit mode) and by item and period, each group in
\* insertion order.
GroupRows(headers, rows, multiOrgUnit) ==
    LET valueIndex == findIndex(headers, "value")
        deIndex == findIndex(headers, "dx")
        ouIndex == findIndex(headers, "ou")
        peIndex == findIndex(headers, "pe")
        deIdOf(row) == Cell(row, deIndex)
        ouIdOf(row) == IF ouIndex >= 0 THEN Cell(row, ouIndex) ELSE Null
        peIdOf(row) == IF peIndex >= 0 THEN Cell(row, peIndex) ELSE Null
        \* the rows that pass !isNaN(value)
        numeric == SelectSeq(rows, LAMBDA row : IsSummarized(Cell(row, valueIndex)))
        withPeriod == SelectSeq(numeric, LAMBDA row : Len(peIdOf(row)) > 0)
        withOrgUnit == SelectSeq(numeric,
                          LAMBDA row : multiOrgUnit /\ Len(ouIdOf(row)) > 0)
        \* deId -> values, for the rows rs
        ByElement(rs) ==
            LET ks == Unique([i \in 1..Len(rs) |-> deIdOf(rs[i])])
            IN  [i \in 1..Len(ks) |->
                    [key |-> ks[i],
                     val |-> RowValues(SelectSeq(rs, LAMBDA r : deIdOf(r) = ks[i]),
                                       valueIndex)]]
        ElementPeriodKey(row) == deIdOf(row) \o <<"_">> \o peIdOf(row)
    IN  [dataByElement |-> ByElement(numeric),
         dataByPeriod |->
            LET ks == Unique([i \in 1..Len(withPeriod) |-> peIdOf(withPeriod[i])])
            IN  [i \in 1..Len(ks) |->
                    [key |-> ks[i],
                     val |-> ByElement(SelectSeq(withPeriod,
                                          LAMBDA r : peIdOf(r) = ks[i]))]],
         dataByOrgUnit |->
            LET ks == Unique([i \in 1..Len(withOrgUnit) |-> ouIdOf(withOrgUnit[i])])
            IN  [i \in 1..Len(ks) |->
                    [key |-> ks[i],
                     val |-> ByElement(SelectSeq(withOrgUnit,
                                          LAMBDA r : ouIdOf(r) = ks[i]))]],
         dataByElementAndPeriod |->
            LET ks == Unique([i \in 1..Len(withPeriod) |->
                                 ElementPeriodKey(withPeriod[i])])
            IN  [i \in 1..Len(ks) |->
                    LET rs == SelectSeq(withPeriod,
                                  LAMBDA r : ElementPeriodKey(r) = ks[i])
                    IN  [key |-> ks[i],
                         val |-> [dataElement |-> deIdOf(rs[1]),
                                  period |-> peIdOf(rs[1]),
                                  values |-> RowValues(rs, valueIndex)]]]]

\* { [groupName]: { [deName]: statistic } }, the group names by metaData
\* (org units) or by metaData and formatPeriodId (periods).
Breakdown(groups, items, periods) ==
    LET NameOf(id) == IF periods THEN ResolvePeriodName(items, id)
                      ELSE ResolveName(items, id)
        Fill[n \in 0..Len(groups)] ==
            IF n = 0 THEN <<>>
            ELSE ObjPut(Fill[n - 1], NameOf(groups[n].key),
                        StatsByName(ObjEntries(groups[n].val), items, <<>>))
    IN  Fill[Len(groups)]

\* Lines 600-642
WithOrgUnitBreakdown(summary, dataByOrgUnit, items, multiOrgUnit) ==
    IF multiOrgUnit /\ Len(dataByOrgUnit) > 0
    THEN ObjPut(summary, <<"orgUnitBreakdown">>,
                Breakdown(ObjEntries(dataByOrgUnit), items, FALSE))
    ELSE summary

\* Lines 645-689
WithPeriodBreakdown(summary, dataByPeriod, items) ==
    IF Len(dataByPeriod) > 0
    THEN ObjPut(summary, <<"periodBreakdown">>,
                Breakdown(ObjEntries(dataByPeriod), items, TRUE))
    ELSE summary

\* elementGroups: deId -> [{period, value}], in the enumeration order of
\* Object.values(dataByElementAndPeriod)
ElementGroups(combined) ==
    LET ks == Unique([i \in 1..Len(combined) |-> combined[i].val.dataElement])
    IN  [i \in 1..Len(ks) |->
            [key |-> ks[i],
             val |-> LET es == SelectSeq(combined,
                                  LAMBDA e : e.val.dataElement = ks[i])
                     IN  [j \in 1..Len(es) |->
                             [period |-> es[j].val.period,
                              value |-> [sum |-> SumSeq(es[j].val.values),
                                         n |-> Len(es[j].val.values)]]]]]

\* The sorted points of one item, lines 718-723
TimeSeriesPoints(sortedPeriods, items) ==
    [j \in 1..Len(sortedPeriods) |->
        [period |-> ResolvePeriodName(items, sortedPeriods[j].period),
         value |-> Hundredths(sortedPeriods[j].value.sum, sortedPeriods[j].value.n)]]

\* summary.timeSeriesData, lines 708-724
TimeSeriesByName(groups, items) ==
    LET Fill[n \in 0..Len(groups)] ==
            IF n = 0 THEN <<>>
            ELSE ObjPut(Fill[n - 1], ResolveName(items, groups[n].key),
                        TimeSeriesPoints(SortTimeSeries(groups[n].val), items))
    IN  Fill[Len(groups)]

\* Lines 692-725
WithTimeSeries(summary, dataByElementAndPeriod, items) ==
    IF Len(dataByElementAndPeriod) > 0
    THEN ObjPut(summary, <<"timeSeriesData">>,
                TimeSeriesByName(
                    ObjEntries(ElementGroups(ObjEntries(dataByElementAndPeriod))),
                    items))
    ELSE summary

\* Lines 563-727: the summary object built from the groups.
SummaryOf(grouped, items, multiOrgUnit) ==
    WithTimeSeries(
        WithPeriodBreakdown(
            WithOrgUnitBreakdown(
                StatsByName(ObjEntries(grouped.dataByElement), items, <<>>),
                grouped.dataByOrgUnit, items, multiOrgUnit),
            grouped.dataByPeriod, items),
        grouped.dataByElementAndPeriod, items)

calculateSummary(headers, rows, items, multiOrgUnit) ==
    IF Len(rows) = 0 THEN <<>>
    ELSE IF findIndex(headers, "value") = -1 THEN <<>>
    ELSE SummaryOf(GroupRows(headers, rows, multiOrgUnit), items, multiOrgUnit)

(***************************************************************************)
(* fetchDataForElements: item-selector normalization                       *)
(***************************************************************************)
\* An element of the dataElements array: a string, or an object with some
\* of the properties id, value, dataElementId (an absent property is the
\* empty string of the model: both are falsy and both join as "").
StringElement(str) ==
    [isString |-> TRUE, str |-> str, id |-> <<>>, value |-> <<>>,
     dataElementId |-> <<>>, displayName |-> <<>>, label |-> <<>>]

ObjectElement(id, value, dataElementId) ==
    [isString |-> FALSE, str |-> <<>>, id |-> id, value |-> value,
     dataElementId |-> dataElementId,
     displayName |-> IF Len(id) > 0 THEN <<"Item ">> \o id ELSE <<>>,
     label |-> IF Len(value) > 0 THEN <<"Item ">> \o value ELSE <<>>]

\* String(x) as Array.prototype.join applies it to an element
ElementToString(e) == IF e.isString THEN e.str ELSE <<"[object Object]">>

\* segments.join(';')
RECURSIVE Join(_)
Join(segments) ==
    IF Len(segments) = 0 THEN <<>>
    ELSE IF Len(segments) = 1 THEN segments[1]
    ELSE segments[1] \o <<";">> \o Join(Tail(segments))

\* str.split(';')
RECURSIVE Split(_)
Split(str) ==
    IF \E i \in 1..Len(str) : str[i] = ";"
    THEN LET i == CHOOSE k \in 1..Len(str) :
                      str[k] = ";" /\ \A j \in 1..(k - 1) : str[j] # ";"
         IN  <<SubSeq(str, 1, i - 1)>> \o Split(SubSeq(str, i + 1, Len(str)))
    ELSE <<str>>

Truthy(str) == Len(str) > 0

\* de.id || de.value || de.dataElementId || de, as a string; "" when falsy
LastResortId(e) ==
    IF e.isString THEN e.str
    ELSE IF Truthy(e.id) THEN e.id
    ELSE IF Truthy(e.value) THEN e.value
    ELSE IF Truthy(e.dataElementId) THEN e.dataElementId
    ELSE ElementToString(e)

\* Mutant of NormalizeItems: an array of {value} objects is joined by .id.
NormalizeItemsValueAsId(elements) ==
    LET first == elements[1]
        possibleIds == SelectSeq(Map(elements, LastResortId), Truthy)
    IN  IF first.isString
        THEN [ok |-> TRUE, deIds |-> Join(Map(elements, ElementToString))]
        ELSE IF Truthy(first.id) \/ Truthy(first.value)
        THEN [ok |-> TRUE, deIds |-> Join(Map(elements, LAMBDA de : de.id))]
        ELSE IF Len(possibleIds) > 0
        THEN [ok |-> TRUE, deIds |-> Join(possibleIds)]
        ELSE [ok |-> FALSE, deIds |-> <<>>]

\* Lines 66-96: the shape of the first element decides how every element is
\* read.  ok = FALSE is "Invalid data elements format".
NormalizeItems(elements) ==
    LET first == elements[1]
        possibleIds == SelectSeq(Map(elements, LastResortId), Truthy)
    IN  IF first.isString
        THEN [ok |-> TRUE, deIds |-> Join(Map(elements, ElementToString))]
        ELSE IF Truthy(first.id)
        THEN [ok |-> TRUE, deIds |-> Join(Map(elements, LAMBDA de : de.id))]
        ELSE IF Truthy(first.value)
        THEN [ok |-> TRUE, deIds |-> Join(Map(elements, LAMBDA de : de.value))]
        ELSE IF Len(possibleIds) > 0
        THEN [ok |-> TRUE, deIds |-> Join(possibleIds)]
        ELSE [ok |-> FALSE, deIds |-> <<>>]

\* Mutant of EmptyDeIds: only the empty string is rejected.
EmptyDeIdsOnlyEmpty(str) == ~Truthy(str)

\* Line 99: !deIds || deIds.trim() === '' || deIds === ';'
EmptyDeIds(str) == ~Truthy(str) \/ str = <<";">>

(***************************************************************************)
(* The external collaborators (engine.query).  engine is fixed when the    *)
(* call starts:                                                            *)
(*   failChildren, children : the answer to organisationUnits/<id>         *)
(*   failAnalytics          : the analytics query is rejected              *)
(*   headers, meta, maxRows : shape of the analytics response              *)
(* The rows are chosen when the response arrives, among the combinations   *)
(* of the requested items, periods and org units, at most one row per      *)
(* combination, in any order.                                              *)
(***************************************************************************)
FullHeaders == <<"dx", "pe", "ou", "value">>

\* The full headers and the four header lists that lack one required column.
HeaderVariants ==
    {FullHeaders} \cup
    {SelectSeq(FullHeaders, LAMBDA h : h # missing) : missing \in Range(FullHeaders)}

KnownItems == {<<"a">>, <<"b">>}

\* The cell the server holds for a combination: a number that differs from
\* one combination to the next, or, for some combinations, a cell that is
\* not a number.
ServerValue(dx, pe, ou) ==
    (IF dx = <<"a">> THEN 10 ELSE 20) + DigitVal(pe[Len(pe)])
        + (IF ou = <<"c2">> THEN 30 ELSE 0)

ServerCell(dx, pe, ou) ==
    IF dx = <<"b">> /\ ou # <<"c1">> /\ DigitVal(pe[Len(pe)]) % 2 = 1
    THEN <<"n/a">>
    ELSE ToStr(ServerValue(dx, pe, ou))

ChildUnits == <<[id |-> <<"c1">>], [id |-> <<"c2">>]>>

SpecialOrgUnits == {<<"USER_ORGUNIT">>, <<"USER_ORGUNIT_CHILDREN">>,
                    <<"USER_ORGUNIT_GRANDCHILDREN">>}

\* The k most recent months / quarters / years at date n, newest first.
RecentMonths(n, k) == [i \in 1..k |-> formatYearMonth((12 * n.year + n.month - i) \div 12,
                                         ((12 * n.year + n.month - i) % 12) + 1)]
RecentQuarters(n, k) ==
    [i \in 1..k |->
        LET q == 4 * n.year + ((n.month - 1) \div 3) - (i - 1)
        IN  ToStr(q \div 4) \o <<"Q">> \o ToStr((q % 4) + 1)]
RecentYears(n, k) == [i \in 1..k |-> ToStr(n.year - (i - 1))]

\* The periods the server may report for a pe dimension: the requested
\* concrete periods, or its own expansion of a relative period it was sent
\* as-is; in both cases only the MaxPeriods most recent hold data.
ServerPeriods(token, n, requested) ==
    LET all == CASE token = "LAST_6_MONTHS" -> RecentMonths(n, MaxPeriods)
                 [] token = "LAST_4_QUARTERS" -> RecentQuarters(n, MaxPeriods)
                 [] token = "LAST_5_YEARS" -> RecentYears(n, MaxPeriods)
                 [] OTHER -> requested
    IN  Range(SubSeq(all, 1, IF Len(all) < MaxPeriods THEN Len(all) ELSE MaxPeriods))

\* The org units the server may report for an ou dimension.
ServerOrgUnits(ou) ==
    IF ou = <<"USER_ORGUNIT">> THEN {<<"X">>}
    ELSE IF ou \in SpecialOrgUnits THEN {<<"c1">>, <<"c2">>}
    ELSE Range(Split(ou))

RowKey(r) == <<r.dx, r.pe, r.ou>>

\* The sequences of at most n rows over the combinations keys, no
\* combination twice.
RECURSIVE RowSequences(_, _)
RowSequences(candidates, n) ==
    IF n = 0 THEN {<<>>}
    ELSE LET shorter == RowSequences(candidates, n - 1)
         IN  shorter \cup
             {Append(rs, r) : <<rs, r>> \in
                 {<<rs, r>> \in shorter \X candidates :
                     /\ Len(rs) = n - 1
                     /\ \A i \in 1..Len(rs) : RowKey(rs[i]) # RowKey(r)}}

ServerRows(dx, periods, ou, maxRows) ==
    RowSequences({[dx |-> d, pe |-> p, ou |-> o, value |-> ServerCell(d, p, o)] :
                     <<d, p, o>> \in (Range(Split(dx)) \cap KnownItems) \X periods
                                      \X ServerOrgUnits(ou)}, maxRows)

\* A row of the response: the cells under the headers the server sends.
MkRow(headers, r) == [i \in 1..Len(headers) |-> r[headers[i]]]

\* The display names the server knows.
ServerName(id) ==
    CASE id = <<"a">> -> <<"ANC 1">>
      [] id = <<"b">> -> <<"ANC 2">>
      [] id = <<"X">> -> <<"District X">>
      [] id = <<"c1">> -> <<"Clinic 1">>
      [] id = <<"c2">> -> <<"Clinic 2">>
      [] OTHER -> summaryFormatPeriodId(id)

\* metaData.items of the response.
ServerItems(meta, rows) ==
    LET ids == UNION {{r.dx, r.pe, r.ou} : r \in Range(rows)}
    IN  CASE meta = "full" -> [id \in ids |-> ServerName(id)]
          [] meta = "noPeriods" ->
                [id \in {i \in ids : \E r \in Range(rows) : i \in {r.dx, r.ou}}
                    |-> ServerName(id)]
          [] OTHER -> [id \in {} |-> <<>>]

(***************************************************************************)
(* fetchDataForElements                                                    *)
(***************************************************************************)
Thrown(message) == [status |-> "thrown", message |-> message]

\* catch (error) { throw new Error(`Failed to fetch data: ${error.message}`) }
Wrapped(message) == Thrown(<<"Failed to fetch data: ">> \o message)

\* Lines 26-104: validation, getActualPeriod and item normalization, up to
\* the org-unit resolution.  thrown = TRUE carries the error of the call.
FetchPrefix(elements, period, ou, n) ==
    IF Len(elements) = 0
    THEN [thrown |-> TRUE,
          error |-> Thrown(<<"At least one data element is required">>)]
    ELSE IF period = ""
    THEN [thrown |-> TRUE,
          error |-> Thrown(<<"Missing required parameter: period">>)]
    ELSE IF ou.isNull
    THEN [thrown |-> TRUE,
          error |-> Thrown(<<"Missing required parameter: orgUnit">>)]
    ELSE IF ~Truthy(ou.id)
    THEN [thrown |-> TRUE,
          error |-> Thrown(<<"orgUnit must have an id property">>)]
    ELSE LET normalized == NormalizeItems(elements)
         IN  IF ~normalized.ok
             THEN [thrown |-> TRUE,
                   error |-> Wrapped(<<"Invalid data elements format">>)]
             ELSE IF EmptyDeIds(normalized.deIds)
             THEN [thrown |-> TRUE,
                   error |-> Wrapped(<<"Empty data element IDs. Please select at least one valid item.">>)]
             ELSE [thrown |-> FALSE,
                   periodValue |-> getActualPeriod(period, n),
                   deIds |-> normalized.deIds]

ChildOrgUnitsQuery(ou) ==
    [resource |-> "organisationUnits", id |-> ou.id]

AnalyticsQuery(dx, pe, ou) ==
    [resource |-> "analytics", dx |-> dx, pe |-> pe, ou |-> ou]

\* Lines 112 and 141: which branch of the org-unit resolution is taken.
NeedsChildQuery(ou) == ou.includeChildOrgUnits /\ ~ou.isSpecial

\* Mutant of SpecialMultiMode: every special token is comparative.
SpecialMultiModeAnyToken(ou) == ou.isSpecial

\* Lines 141-149: the branches that resolve without a query.
SpecialMultiMode(ou) ==
    /\ ou.isSpecial
    /\ ou.id \in {<<"USER_ORGUNIT_CHILDREN">>, <<"USER_ORGUNIT_GRANDCHILDREN">>}

\* Mutant of BeginFetch: both queries are issued before either is awaited.
BeginFetchBothAtOnce(elements) ==
    LET prefix == FetchPrefix(elements, relativePeriod, orgUnit, now)
    IN  /\ dataElements' = elements
        /\ childOrgUnits' = <<>>
        /\ IF prefix.thrown
           THEN /\ result' = prefix.error
                /\ pc' = "fetched"
                /\ UNCHANGED <<periodValue, deIds, ouDimension,
                               multiOrgUnitMode, calls>>
           ELSE /\ periodValue' = prefix.periodValue
                /\ deIds' = prefix.deIds
                /\ result' = [status |-> "pending"]
                /\ ouDimension' = orgUnit.id
                /\ multiOrgUnitMode' = SpecialMultiMode(orgUnit)
                /\ calls' = (IF NeedsChildQuery(orgUnit)
                             THEN Append(calls, ChildOrgUnitsQuery(orgUnit))
                             ELSE calls)
                            \o <<AnalyticsQuery(prefix.deIds, Join(prefix.periodValue),
                                                orgUnit.id)>>
                /\ pc' = IF NeedsChildQuery(orgUnit) THEN "awaitChildren"
                         ELSE "awaitAnalytics"

\* fetchDataForElements(engine, elements, relativePeriod, orgUnit) from its
\* first line to its first await (or to its throw).
BeginFetch(elements) ==
    LET prefix == FetchPrefix(elements, relativePeriod, orgUnit, now)
    IN  /\ dataElements' = elements
        /\ childOrgUnits' = <<>>
        /\ IF prefix.thrown
           THEN /\ result' = prefix.error
                /\ pc' = "fetched"
                /\ UNCHANGED <<periodValue, deIds, ouDimension,
                               multiOrgUnitMode, calls>>
           ELSE /\ periodValue' = prefix.periodValue
                /\ deIds' = prefix.deIds
                /\ result' = [status |-> "pending"]
                /\ IF NeedsChildQuery(orgUnit)
                   THEN /\ calls' = Append(calls, ChildOrgUnitsQuery(orgUnit))
                        /\ pc' = "awaitChildren"
                        /\ UNCHANGED <<ouDimension, multiOrgUnitMode>>
                   ELSE /\ ouDimension' = orgUnit.id
                        /\ multiOrgUnitMode' = SpecialMultiMode(orgUnit)
                        /\ calls' = Append(calls,
                              AnalyticsQuery(prefix.deIds, Join(prefix.periodValue),
                                             orgUnit.id))
                        /\ pc' = "awaitAnalytics"

\* A caller other than the dashboard (AIQuerySelection.handleQuerySubmit)
\* passes its selection as it is.
CallFetch ==
    /\ pc = "idle"
    /\ caller = "direct"
    /\ BeginFetch(selectedDataElements)
    /\ UNCHANGED <<componentVars, inputVars, caller, dashVars>>

\* Mutant of ChildrenResolve: the parent stays in the ou dimension.
ChildrenResolveWithParent ==
    /\ pc = "awaitChildren"
    /\ ~engine.failChildren
    /\ LET children == engine.children
           ou == Join(<<orgUnit.id>> \o [i \in 1..Len(children) |-> children[i].id])
       IN  /\ childOrgUnits' = children
           /\ ouDimension' = ou
           /\ multiOrgUnitMode' = (Len(children) > 0)
           /\ calls' = Append(calls, AnalyticsQuery(deIds, Join(periodValue), ou))
    /\ pc' = "awaitAnalytics"
    /\ UNCHANGED <<componentVars, inputVars, periodValue, caller, dataElements, deIds, result,
                   dashVars>>

\* The child-unit query resolves (lines 124-136), then the analytics query
\* is issued (line 170).
ChildrenResolve ==
    /\ pc = "awaitChildren"
    /\ ~engine.failChildren
    /\ LET children == engine.children
           ou == IF Len(children) > 0
                 THEN Join([i \in 1..Len(children) |-> children[i].id])
                 ELSE orgUnit.id
       IN  /\ childOrgUnits' = children
           /\ ouDimension' = ou
           /\ multiOrgUnitMode' = (Len(children) > 0)
           /\ calls' = Append(calls, AnalyticsQuery(deIds, Join(periodValue), ou))
    /\ pc' = "awaitAnalytics"
    /\ UNCHANGED <<componentVars, inputVars, periodValue, caller, dataElements, deIds, result,
                   dashVars>>

\* Mutant of ChildrenReject: the failure of the child-unit query ends the call.
ChildrenRejectThrows ==
    /\ pc = "awaitChildren"
    /\ engine.failChildren
    /\ result' = Wrapped(<<"Network error">>)
    /\ pc' = "fetched"
    /\ UNCHANGED <<componentVars, inputVars, periodValue, caller, dataElements, deIds,
                   ouDimension, multiOrgUnitMode, childOrgUnits, calls, dashVars>>

\* The child-unit query rejects (lines 137-140): single org unit fallback.
ChildrenReject ==
    /\ pc = "awaitChildren"
    /\ engine.failChildren
    /\ ouDimension' = orgUnit.id
    /\ calls' = Append(calls, AnalyticsQuery(deIds, Join(periodValue), orgUnit.id))
    /\ pc' = "awaitAnalytics"
    /\ UNCHANGED <<componentVars, inputVars, periodValue, caller, dataElements, deIds,
                   multiOrgUnitMode, childOrgUnits, result, dashVars>>

\* Lines 199-214: the object fetchDataForElements returns, from the values
\* of its parameters and locals.
MakeProcessedData(headers, items, rows, elements, multi, children, ou) ==
    [headers |-> headers,
     metaData |-> items,
     rows |-> rows,
     hasData |-> Len(rows) > 0,
     dataElements |-> elements,
     multiOrgUnitMode |-> multi,
     childOrgUnits |-> children,
     originalOrgUnit |-> ou,
     summary |-> calculateSummary(headers, rows, items, multi)]

\* The same for the invocation under study.
ProcessedData(headers, items, rows) ==
    MakeProcessedData(headers, items, rows, dataElements, multiOrgUnitMode,
                      childOrgUnits, orgUnit)

\* The analytics query resolves (lines 170-216).
AnalyticsResolve ==
    /\ pc = "awaitAnalytics"
    /\ ~engine.failAnalytics
    /\ \E rs \in ServerRows(deIds, ServerPeriods(relativePeriod, now, periodValue),
                            ouDimension, engine.maxRows) :
          result' = [status |-> "returned",
                     data |-> ProcessedData(engine.headers,
                                            ServerItems(engine.meta, rs),
                                            [i \in 1..Len(rs) |->
                                                MkRow(engine.headers, rs[i])])]
    /\ pc' = "fetched"
    /\ UNCHANGED <<componentVars, inputVars, periodValue, caller, dataElements, deIds,
                   ouDimension, multiOrgUnitMode, childOrgUnits, calls, dashVars>>

\* The analytics query rejects (lines 217-220).
AnalyticsReject ==
    /\ pc = "awaitAnalytics"
    /\ engine.failAnalytics
    /\ result' = Wrapped(<<"Network error">>)
    /\ pc' = "fetched"
    /\ UNCHANGED <<componentVars, inputVars, periodValue, caller, dataElements, deIds,
                   ouDimension, multiOrgUnitMode, childOrgUnits, calls, dashVars>>

(***************************************************************************)
(* DataDashboard: processDataForVisualization                              *)
(***************************************************************************)
Contains(str, c) == \E i \in 1..Len(str) : str[i] = c

\* now.setFullYear(now.getFullYear() - 1): 29 February rolls over to 1 March.
OneYearAgo(n) ==
    IF n.month = 2 /\ n.day = 29
    THEN [year |-> n.year - 1, month |-> 3, day |-> 1]
    ELSE [year |-> n.year - 1, month |-> n.month, day |-> n.day]

\* Mutant of getOneYearAgoAsYYYYMM: the year is not moved back.
getThisMonthAsYYYYMM(n) == parseInt(formatYearMonth(n.year, n.month))

\* getOneYearAgoAsYYYYMM()
getOneYearAgoAsYYYYMM(n) ==
    parseInt(formatYearMonth(OneYearAgo(n).year, OneYearAgo(n).month))

\* new Date("YYYY-MM-DD") as a number that grows with the date; NaN (-1 here)
\* when the string is not of that form.
DateValue(str) ==
    IF /\ Len(str) = 10 /\ str[5] = "-" /\ str[8] = "-"
       /\ AllDigits(SubSeq(str, 1, 4)) /\ AllDigits(SubSeq(str, 6, 7))
       /\ AllDigits(SubSeq(str, 9, 10))
    THEN 10000 * parseInt(SubSeq(str, 1, 4)) + 100 * parseInt(SubSeq(str, 6, 7))
         + parseInt(SubSeq(str, 9, 10))
    ELSE -1

IsYYYYMMLike(periodId) == Len(periodId) = 6 /\ ~IsNaNParse(periodId)

\* Mutant of ChartPeriods: the periods are never sorted.
ChartPeriodsEncounterOrder(rowPeriods, selectedPeriod, n) == Unique(rowPeriods)

\* Lines 153-199: the periods behind the chart labels.
ChartPeriods(rowPeriods, selectedPeriod, n) ==
    LET uniquePeriods == Unique(rowPeriods)
    IN  IF selectedPeriod = "LAST_12_MONTHS" /\ Len(uniquePeriods) > 0
        THEN IF Contains(uniquePeriods[1], "-")
             THEN LET oneYearAgo == 10000 * OneYearAgo(n).year
                                    + 100 * OneYearAgo(n).month + OneYearAgo(n).day
                  IN  SortBy(SelectSeq(uniquePeriods,
                                LAMBDA p : DateValue(p) >= 0 /\ DateValue(p) >= oneYearAgo),
                             LAMBDA a, b : DateValue(a) - DateValue(b))
             ELSE IF IsYYYYMMLike(uniquePeriods[1])
             THEN SortBy(SelectSeq(uniquePeriods,
                            LAMBDA p : ~IsNaNParse(p)
                                       /\ parseInt(p) >= getOneYearAgoAsYYYYMM(n)),
                         LAMBDA a, b : parseInt(a) - parseInt(b))
             ELSE SortBy(uniquePeriods, localeCompare)
        ELSE uniquePeriods

\* formatPeriodId of processDataForVisualization (lines 209-218)
dashboardFormatPeriodId(periodId) ==
    IF Len(periodId) = 6
    THEN SubSeq(periodId, 1, 4) \o <<"-">> \o SubSeq(periodId, 5, 6)
    ELSE periodId

\* parseFloat(cell) || 0
NumberOrZero(cell) == IF IsNaNParse(cell) THEN 0 ELSE parseFloat(cell)

\* selectedDataElements.find(de => de.id === deId || de.value === deId), when
\* the selection holds objects; found = FALSE otherwise.
FindSelected(selected, deId) ==
    IF Len(selected) > 0 /\ ~selected[1].isString
       /\ \E i \in 1..Len(selected) :
             ~selected[i].isString /\ (selected[i].id = deId \/ selected[i].value = deId)
    THEN [found |-> TRUE,
          de |-> selected[CHOOSE i \in 1..Len(selected) :
                    /\ ~selected[i].isString
                    /\ (selected[i].id = deId \/ selected[i].value = deId)
                    /\ \A j \in 1..(i - 1) :
                          selected[j].isString
                          \/ (selected[j].id # deId /\ selected[j].value # deId)]]
    ELSE [found |-> FALSE]

\* The display name of an item: metaData, else the selection, else the id.
ItemDisplayName(items, selected, deId) ==
    IF HasMeta(items, deId) THEN items[deId]
    ELSE LET hit == FindSelected(selected, deId)
         IN  IF ~hit.found THEN deId
             ELSE IF Truthy(hit.de.displayName) THEN hit.de.displayName
             ELSE IF Truthy(hit.de.label) THEN hit.de.label
             ELSE deId

\* Mutant of UseOrgUnitDatasets: one dataset per unit whenever the flag is set.
UseOrgUnitDatasetsAlways(isMultiOrgUnit, uniqueOrgUnits) == isMultiOrgUnit

\* Line 229
UseOrgUnitDatasets(isMultiOrgUnit, uniqueOrgUnits) ==
    isMultiOrgUnit /\ Len(uniqueOrgUnits) > 1

\* Mutant of SingleUnitValue: a period without a row is left out of the data.
SingleUnitValueNoFill(deRows, periodIndex, valueIndex, periodId) ==
    LET hits == SelectSeq(deRows, LAMBDA row : Cell(row, periodIndex) = periodId)
    IN  IF Len(hits) > 0 THEN <<NumberOrZero(Cell(hits[1], valueIndex))>> ELSE <<>>

\* Lines 283-286: the value of one item for one period, as a one-element list.
SingleUnitValue(deRows, periodIndex, valueIndex, periodId) ==
    LET hits == SelectSeq(deRows, LAMBDA row : Cell(row, periodIndex) = periodId)
    IN  IF Len(hits) > 0 THEN <<NumberOrZero(Cell(hits[1], valueIndex))>> ELSE <<0>>

\* Lines 243-246: the value of one org unit for one period.
OrgUnitValue(orgUnitRows, periodIndex, valueIndex, periodId) ==
    LET periodRows == SelectSeq(orgUnitRows,
                         LAMBDA row : Cell(row, periodIndex) = periodId)
    IN  SumSeq([i \in 1..Len(periodRows) |->
                   NumberOrZero(Cell(periodRows[i], valueIndex))])

\* Concatenation of a sequence of sequences.
RECURSIVE Flatten(_)
Flatten(ss) == IF Len(ss) = 0 THEN <<>> ELSE ss[1] \o Flatten(Tail(ss))

\* Lines 220-297: the datasets of the chart.
ChartDatasets(d, selected, uniquePeriods, selectedOrgUnit) ==
    LET periodIndex == findIndex(d.headers, "pe")
        deIndex == findIndex(d.headers, "dx")
        ouIndex == findIndex(d.headers, "ou")
        valueIndex == findIndex(d.headers, "value")
        isMultiOrgUnit == d.multiOrgUnitMode /\ ouIndex # -1
        uniqueDataElements == Unique([i \in 1..Len(d.rows) |-> Cell(d.rows[i], deIndex)])
        uniqueOrgUnits == IF isMultiOrgUnit
                          THEN Unique([i \in 1..Len(d.rows) |-> Cell(d.rows[i], ouIndex)])
                          ELSE <<selectedOrgUnit.id>>
    IN  IF UseOrgUnitDatasets(isMultiOrgUnit, uniqueOrgUnits)
        THEN [k \in 1..Len(uniqueOrgUnits) |->
                 LET ouId == uniqueOrgUnits[k]
                     orgUnitRows == SelectSeq(d.rows, LAMBDA row : Cell(row, ouIndex) = ouId)
                 IN  [label |-> IF HasMeta(d.metaData, ouId) THEN d.metaData[ouId] ELSE ouId,
                      by |-> "orgUnit",
                      id |-> ouId,
                      data |-> [j \in 1..Len(uniquePeriods) |->
                                   OrgUnitValue(orgUnitRows, periodIndex, valueIndex,
                                                uniquePeriods[j])]]]
        ELSE [k \in 1..Len(uniqueDataElements) |->
                 LET deId == uniqueDataElements[k]
                     deRows == SelectSeq(d.rows, LAMBDA row : Cell(row, deIndex) = deId)
                 IN  [label |-> ItemDisplayName(d.metaData, selected, deId),
                      by |-> "item",
                      id |-> deId,
                      data |-> Flatten([j \in 1..Len(uniquePeriods) |->
                                   SingleUnitValue(deRows, periodIndex, valueIndex,
                                                   uniquePeriods[j])])]]

\* formatValue(value, valueType) for a selection that carries no valueType:
\* '-' for an empty cell, value.toString() otherwise.
formatValue(cell) == IF Len(cell) = 0 \/ cell = Undefined THEN <<"-">> ELSE cell

\* Mutant of CompareMultiOrgUnitRows: the period is compared first.
CompareMultiOrgUnitRowsPeriodFirst(a, b, ouIndex, deIndex, periodIndex) ==
    LET peCompare == localeCompare(Cell(a, periodIndex), Cell(b, periodIndex))
        ouCompare == localeCompare(Cell(a, ouIndex), Cell(b, ouIndex))
    IN  IF peCompare # 0 THEN peCompare
        ELSE IF ouCompare # 0 THEN ouCompare
        ELSE localeCompare(Cell(a, deIndex), Cell(b, deIndex))

\* Lines 309-318: org unit, then item, then period, each by localeCompare.
CompareMultiOrgUnitRows(a, b, ouIndex, deIndex, periodIndex) ==
    LET ouCompare == localeCompare(Cell(a, ouIndex), Cell(b, ouIndex))
        deCompare == localeCompare(Cell(a, deIndex), Cell(b, deIndex))
    IN  IF ouCompare # 0 THEN ouCompare
        ELSE IF deCompare # 0 THEN deCompare
        ELSE localeCompare(Cell(a, periodIndex), Cell(b, periodIndex))

\* Lines 389-406: the comparator of the LAST_12_MONTHS default sort.
CompareTableRowsByPeriod(a, b) ==
    IF IsYYYYMMLike(a.originalPeriodId) /\ IsYYYYMMLike(b.originalPeriodId)
    THEN parseInt(a.originalPeriodId) - parseInt(b.originalPeriodId)
    ELSE IF /\ Contains(a.originalPeriodId, "-") /\ Contains(b.originalPeriodId, "-")
            /\ DateValue(a.originalPeriodId) >= 0 /\ DateValue(b.originalPeriodId) >= 0
    THEN DateValue(a.originalPeriodId) - DateValue(b.originalPeriodId)
    ELSE localeCompare(a.period, b.period)

\* Lines 306-412: the table rows.
TableRows(d, selected, selectedPeriod, selectedOrgUnit) ==
    LET periodIndex == findIndex(d.headers, "pe")
        deIndex == findIndex(d.headers, "dx")
        ouIndex == findIndex(d.headers, "ou")
        valueIndex == findIndex(d.headers, "value")
        isMultiOrgUnit == d.multiOrgUnitMode /\ ouIndex # -1
        sortedRows ==
            IF isMultiOrgUnit
            THEN SortBy(d.rows, LAMBDA a, b :
                     CompareMultiOrgUnitRows(a, b, ouIndex, deIndex, periodIndex))
            ELSE d.rows
        tableRows ==
            [i \in 1..Len(sortedRows) |->
                LET row == sortedRows[i]
                    periodId == Cell(row, periodIndex)
                    deId == Cell(row, deIndex)
                    ouId == Cell(row, ouIndex)
                IN  [period |-> IF HasMeta(d.metaData, periodId)
                                THEN d.metaData[periodId]
                                ELSE dashboardFormatPeriodId(periodId),
                     originalPeriodId |-> periodId,
                     dataElement |-> ItemDisplayName(d.metaData, selected, deId),
                     orgUnit |-> IF HasMeta(d.metaData, ouId) THEN d.metaData[ouId]
                                 ELSE IF Truthy(selectedOrgUnit.displayName)
                                 THEN selectedOrgUnit.displayName
                                 ELSE ouId,
                     value |-> formatValue(Cell(row, valueIndex))]]
    IN  IF selectedPeriod = "LAST_12_MONTHS"
        THEN SortBy(tableRows, CompareTableRowsByPeriod)
        ELSE tableRows

RequiredColumnsPresent(headers) ==
    /\ findIndex(headers, "pe") # -1
    /\ findIndex(headers, "dx") # -1
    /\ findIndex(headers, "ou") # -1
    /\ findIndex(headers, "value") # -1

\* Lines 201-218: formatPeriodId is a const declared after the statement
\* that builds the labels, so a label period without a metaData entry makes
\* that statement throw (a ReferenceError, or a TypeError once the build has
\* turned const into var).
LabelErrors == {<<"Cannot access 'formatPeriodId' before initialization">>,
                <<"formatPeriodId is not a function">>}

LabelsThrow(items, uniquePeriods) ==
    \E i \in 1..Len(uniquePeriods) : ~HasMeta(items, uniquePeriods[i])

\* processDataForVisualization(data) (lines 101-413) as the new values of
\* chartData, tableData, error and sortConfig.
ProcessData(d, selected, selectedPeriod, selectedOrgUnit) ==
    IF Len(d.rows) = 0
    THEN /\ error' = <<"No data rows available for the selected criteria. Try selecting different data elements or a different time period.">>
         /\ UNCHANGED <<chartData, tableData, sortConfig>>
    ELSE IF ~RequiredColumnsPresent(d.headers)
    THEN /\ error' = <<"Data structure from DHIS2 is not in the expected format. Missing required columns.">>
         /\ UNCHANGED <<chartData, tableData, sortConfig>>
    ELSE LET periodIndex == findIndex(d.headers, "pe")
             uniquePeriods ==
                 ChartPeriods([i \in 1..Len(d.rows) |-> Cell(d.rows[i], periodIndex)],
                              selectedPeriod, now)
         IN  IF LabelsThrow(d.metaData, uniquePeriods)
             THEN \* caught by loadData (lines 90-92)
                  /\ \E message \in LabelErrors :
                        error' = <<"Error loading data: ">> \o message
                  /\ UNCHANGED <<chartData, tableData, sortConfig>>
             ELSE /\ chartData' =
                        [built |-> TRUE,
                         periods |-> uniquePeriods,
                         labels |-> [i \in 1..Len(uniquePeriods) |->
                                        d.metaData[uniquePeriods[i]]],
                         datasets |-> ChartDatasets(d, selected,
                                                    uniquePeriods, selectedOrgUnit)]
                  /\ tableData' = TableRows(d, selected, selectedPeriod,
                                            selectedOrgUnit)
                  /\ sortConfig' = IF selectedPeriod = "LAST_12_MONTHS"
                                   THEN [key |-> "period", direction |-> "ascending"]
                                   ELSE sortConfig
                  /\ error' = <<>>

\* processDataForVisualization(data) of the render whose props are the
\* selection under study.
ProcessDataForVisualization(d) ==
    ProcessData(d, selectedDataElements, relativePeriod, orgUnit)

(***************************************************************************)
(* DataDashboard: loadData                                                 *)
(***************************************************************************)
\* Lines 63-75: the ids handed to fetchDataForElements.
ExtractIds(selected) ==
    IF ~selected[1].isString
    THEN IF Truthy(selected[1].id)
         THEN [i \in 1..Len(selected) |-> StringElement(selected[i].id)]
         ELSE IF Truthy(selected[1].value)
         THEN [i \in 1..Len(selected) |-> StringElement(selected[i].value)]
         ELSE selected
    ELSE selected

\* The effect runs: lines 45-84, up to the await of fetchDataForElements.
\* With no items or no org unit selected it returns at once.
LoadData ==
    /\ pc = "idle"
    /\ caller = "dashboard"
    /\ IF Len(selectedDataElements) = 0 \/ orgUnit.isNull
       THEN /\ pc' = "rendered"
            /\ UNCHANGED <<periodValue, dataElements, deIds, ouDimension,
                           multiOrgUnitMode, childOrgUnits, calls, result, error>>
       ELSE /\ error' = <<>>
            /\ BeginFetch(ExtractIds(selectedDataElements))
    /\ UNCHANGED <<componentVars, inputVars, caller, chartData, tableData, sortConfig>>

\* The await of loadData completes: lines 86-95.
Visualize ==
    /\ pc = "fetched"
    /\ caller = "dashboard"
    /\ IF result.status = "thrown"
       THEN /\ error' = <<"Error loading data: ">> \o result.message
            /\ UNCHANGED <<chartData, tableData, sortConfig>>
       ELSE ProcessDataForVisualization(result.data)
    /\ pc' = "rendered"
    /\ UNCHANGED <<componentVars, inputVars, periodValue, fetchVars>>

(***************************************************************************)
(* DataDashboard: the table as displayed (getSortedData, handleSort)       *)
(***************************************************************************)
\* The words and characters of the displayed strings in UTF-16 code unit
\* order, the order of the < and > operators on strings.
CodeUnitOrder ==
    <<" ", "-", "0", "1", "2", "3", "4", "5", "6", "7", "8", "9",
      "ANC 1", "ANC 2", "April", "August", "Clinic 1", "Clinic 2", "December",
      "District X", "February", "Item ", "January", "July", "June", "March",
      "May", "November", "October", "Q", "September", "User units", "X",
      "Year", "_", "a", "b", "c1", "c2", "n/a">>

CodeUnitRank(c) == IF \E i \in 1..Len(CodeUnitOrder) : CodeUnitOrder[i] = c
                   THEN CHOOSE i \in 1..Len(CodeUnitOrder) : CodeUnitOrder[i] = c
                   ELSE Len(CodeUnitOrder) + 1

\* a < b on strings
RECURSIVE StringLess(_, _)
StringLess(a, b) ==
    IF Len(b) = 0 THEN FALSE
    ELSE IF Len(a) = 0 THEN TRUE
    ELSE IF CodeUnitRank(a[1]) < CodeUnitRank(b[1]) THEN TRUE
    ELSE IF CodeUnitRank(a[1]) > CodeUnitRank(b[1]) THEN FALSE
    ELSE StringLess(Tail(a), Tail(b))

SortKeys == {"period", "dataElement", "orgUnit", "value"}

\* a[sortConfig.key]
Field(row, key) ==
    CASE key = "period" -> row.period
      [] key = "dataElement" -> row.dataElement
      [] key = "orgUnit" -> row.orgUnit
      [] OTHER -> row.value

\* Lines 520-526: the default string comparison.
CompareStrings(x, y, direction) ==
    IF StringLess(x, y) THEN (IF direction = "ascending" THEN -1 ELSE 1)
    ELSE IF StringLess(y, x) THEN (IF direction = "ascending" THEN 1 ELSE -1)
    ELSE 0

\* new Date(period + "-01") for a display name of the form YYYY-MM
DisplayDateValue(name) == DateValue(name \o <<"-", "0", "1">>)

\* Lines 430-463: the comparator used while no sort key is set, in the
\* LAST_12_MONTHS view.
CompareDefaultLast12(a, b) ==
    IF /\ Truthy(a.originalPeriodId) /\ Truthy(b.originalPeriodId)
       /\ IsYYYYMMLike(a.originalPeriodId) /\ IsYYYYMMLike(b.originalPeriodId)
    THEN parseInt(a.originalPeriodId) - parseInt(b.originalPeriodId)
    ELSE IF /\ Truthy(a.originalPeriodId) /\ Truthy(b.originalPeriodId)
            /\ Contains(a.originalPeriodId, "-") /\ Contains(b.originalPeriodId, "-")
            /\ DateValue(a.originalPeriodId) >= 0 /\ DateValue(b.originalPeriodId) >= 0
    THEN DateValue(a.originalPeriodId) - DateValue(b.originalPeriodId)
    ELSE IF /\ Contains(a.period, "-") /\ Contains(b.period, "-")
            /\ DisplayDateValue(a.period) >= 0 /\ DisplayDateValue(b.period) >= 0
    THEN DisplayDateValue(a.period) - DisplayDateValue(b.period)
    ELSE localeCompare(a.period, b.period)

Signed(diff, direction) == IF direction = "ascending" THEN diff ELSE 0 - diff

\* Mutant of CompareRows: the period column is compared by its period ids in
\* every view.
CompareRowsPeriodById(a, b, config, selectedPeriod) ==
    IF config.key = "period"
    THEN Signed(parseInt(a.originalPeriodId) - parseInt(b.originalPeriodId),
                config.direction)
    ELSE IF /\ config.key = "value"
            /\ ~IsNaNParse(a.value) /\ ~IsNaNParse(b.value)
    THEN Signed(parseFloat(a.value) - parseFloat(b.value), config.direction)
    ELSE CompareStrings(Field(a, config.key), Field(b, config.key), config.direction)

\* Lines 472-527: the comparator of an explicit sort.
CompareRows(a, b, config, selectedPeriod) ==
    IF /\ config.key = "period" /\ selectedPeriod = "LAST_12_MONTHS"
       /\ Truthy(a.originalPeriodId) /\ Truthy(b.originalPeriodId)
       /\ IsYYYYMMLike(a.originalPeriodId) /\ IsYYYYMMLike(b.originalPeriodId)
    THEN Signed(parseInt(a.originalPeriodId) - parseInt(b.originalPeriodId),
                config.direction)
    ELSE IF /\ config.key = "period" /\ selectedPeriod = "LAST_12_MONTHS"
            /\ Truthy(a.originalPeriodId) /\ Truthy(b.originalPeriodId)
            /\ Contains(a.originalPeriodId, "-") /\ Contains(b.originalPeriodId, "-")
            /\ DateValue(a.originalPeriodId) >= 0 /\ DateValue(b.originalPeriodId) >= 0
    THEN Signed(DateValue(a.originalPeriodId) - DateValue(b.originalPeriodId),
                config.direction)
    ELSE IF /\ config.key = "period" /\ selectedPeriod = "LAST_12_MONTHS"
            /\ Contains(a.period, "-") /\ Contains(b.period, "-")
            /\ DisplayDateValue(a.period) >= 0 /\ DisplayDateValue(b.period) >= 0
    THEN Signed(DisplayDateValue(a.period) - DisplayDateValue(b.period),
                config.direction)
    ELSE IF /\ config.key = "value"
            /\ ~IsNaNParse(a.value) /\ ~IsNaNParse(b.value)
    THEN Signed(parseFloat(a.value) - parseFloat(b.value), config.direction)
    ELSE CompareStrings(Field(a, config.key), Field(b, config.key), config.direction)

\* getSortedData(): the rows the table shows.
getSortedData(table, config, selectedPeriod) ==
    IF config.key = None
    THEN IF selectedPeriod = "LAST_12_MONTHS"
         THEN SortBy(table, CompareDefaultLast12)
         ELSE table
    ELSE SortBy(table, LAMBDA a, b : CompareRows(a, b, config, selectedPeriod))

\* Mutant of NextDirection: a click always sorts ascending.
NextDirectionAscending(config, key) == "ascending"

\* Lines 533-536
NextDirection(config, key) ==
    IF config.key = key /\ config.direction = "ascending" THEN "descending"
    ELSE "ascending"

\* handleSort(key): a click on a column header of the displayed table.
HandleSort ==
    /\ pc \in {"rendered", "sorted"}
    /\ error = <<>>
    /\ chartData.built
    /\ \E key \in SortKeys :
          sortConfig' = [key |-> key, direction |-> NextDirection(sortConfig, key)]
    /\ pc' = "sorted"
    /\ UNCHANGED <<componentVars, inputVars, periodValue, fetchVars, chartData, tableData, error>>

(***************************************************************************)
(* The inputs.                                                             *)
(***************************************************************************)
ElementChoices ==
    {StringElement(<<>>), StringElement(<<"a">>), StringElement(<<"b">>),
     ObjectElement(<<"a">>, <<>>, <<>>), ObjectElement(<<"b">>, <<>>, <<>>),
     ObjectElement(<<>>, <<"a">>, <<>>), ObjectElement(<<>>, <<"b">>, <<>>),
     ObjectElement(<<>>, <<>>, <<"a">>), ObjectElement(<<>>, <<>>, <<>>)}

\* The arrays of at most n elements.
ItemArrays(n) == UNION {[1..k -> ElementChoices] : k \in 0..n}

ConcreteUnit(include) ==
    [isNull |-> FALSE, id |-> <<"X">>, displayName |-> <<"District X">>,
     isSpecial |-> FALSE, includeChildOrgUnits |-> include]

\* handleSpecialOrgUnitSelect of DatasetSelector
SpecialUnit(token, include) ==
    [isNull |-> FALSE, id |-> token, displayName |-> <<"User units">>,
     isSpecial |-> TRUE, includeChildOrgUnits |-> include]

NoOrgUnit == [isNull |-> TRUE]

OrgUnitWithoutId ==
    [isNull |-> FALSE, id |-> <<>>, displayName |-> <<>>, isSpecial |-> FALSE,
     includeChildOrgUnits |-> FALSE]

OrgUnitChoices ==
    {ConcreteUnit(include) : include \in BOOLEAN}
        \cup {SpecialUnit(t, include) : t \in SpecialOrgUnits, include \in BOOLEAN}
        \cup {NoOrgUnit, OrgUnitWithoutId}

Engine(failChildren, nChildren, failAnalytics, headers, meta, maxRows) ==
    [failChildren |-> failChildren,
     children |-> SubSeq(ChildUnits, 1,
                         IF nChildren < Len(ChildUnits) THEN nChildren
                         ELSE Len(ChildUnits)),
     failAnalytics |-> failAnalytics,
     headers |-> headers,
     meta |-> meta,
     maxRows |-> maxRows]

\* The collaborators of the fetch-centred specification: every answer to the
\* child-unit query, a failing analytics query, every header list; short
\* responses.
FetchEngines ==
    {Engine(FALSE, n, FALSE, FullHeaders, "full", 1) : n \in 0..MaxChildren}
        \cup {Engine(TRUE, 0, FALSE, FullHeaders, "full", 1),
              Engine(FALSE, 0, TRUE, FullHeaders, "full", 1)}
        \cup {Engine(FALSE, 0, FALSE, h, "full", 1) : h \in HeaderVariants}

Today == [year |-> FirstYear + 1, month |-> 1, day |-> 15]

\* Every item array with one org unit and one collaborator; every org unit,
\* period and collaborator with the item arrays of at most one element.
Init ==
    /\ pc = "idle"
    /\ now = Today
    /\ caller \in {"direct", "dashboard"}
    /\ \/ /\ selectedDataElements \in ItemArrays(MaxElements)
          /\ orgUnit = ConcreteUnit(FALSE)
          /\ relativePeriod = "THIS_YEAR"
          /\ engine = Engine(FALSE, 0, FALSE, FullHeaders, "full", 1)
       \/ /\ selectedDataElements \in ItemArrays(1)
          /\ orgUnit \in OrgUnitChoices
          /\ relativePeriod \in {"THIS_MONTH", "LAST_6_MONTHS", ""}
          /\ engine \in FetchEngines
    /\ periodValue = <<>>
    /\ dataElements = <<>>
    /\ deIds = <<>>
    /\ ouDimension = <<>>
    /\ multiOrgUnitMode = FALSE
    /\ childOrgUnits = <<>>
    /\ calls = <<>>
    /\ result = [status |-> "pending"]
    /\ chartData = [built |-> FALSE]
    /\ tableData = <<>>
    /\ error = <<>>
    /\ sortConfig = [key |-> None, direction |-> "ascending"]
    /\ ComponentsIdle

Next ==
    \/ CallFetch
    \/ LoadData
    \/ ChildrenResolve
    \/ ChildrenReject
    \/ AnalyticsResolve
    \/ AnalyticsReject
    \/ Visualize

Spec == Init /\ [][Next]_vars

(***************************************************************************)
(* Specification of the dashboard: a fixed selection of two items, the     *)
(* responses as long as MaxRows.                                           *)
(***************************************************************************)
TwoItems == <<ObjectElement(<<"a">>, <<>>, <<>>), ObjectElement(<<"b">>, <<>>, <<>>)>>

InitDash ==
    /\ pc = "idle"
    /\ now = Today
    /\ selectedDataElements = TwoItems
    /\ \/ \* one org unit, every encoding of the periods
          /\ caller = "dashboard"
          /\ orgUnit = ConcreteUnit(FALSE)
          /\ relativePeriod \in {"LAST_12_MONTHS", "LAST_6_MONTHS", "LAST_4_QUARTERS",
                                 "LAST_5_YEARS", "THIS_MONTH"}
          /\ engine = Engine(FALSE, 0, FALSE, FullHeaders, "full", MaxRows)
       \/ \* several org units
          /\ caller = "dashboard"
          /\ \/ /\ orgUnit = ConcreteUnit(TRUE)
                /\ relativePeriod = "LAST_6_MONTHS"
             \/ /\ orgUnit = SpecialUnit(<<"USER_ORGUNIT_CHILDREN">>, FALSE)
                /\ relativePeriod = "LAST_12_MONTHS"
          /\ engine = Engine(FALSE, MaxChildren, FALSE, FullHeaders, "full", MaxRows)
       \/ \* failing collaborators, incomplete responses, either caller
          /\ caller \in {"direct", "dashboard"}
          /\ orgUnit \in {ConcreteUnit(FALSE), ConcreteUnit(TRUE)}
          /\ relativePeriod \in {"LAST_12_MONTHS", "LAST_6_MONTHS"}
          /\ engine \in {Engine(TRUE, 0, FALSE, FullHeaders, "full", 1),
                         Engine(FALSE, 0, TRUE, FullHeaders, "full", 1),
                         Engine(FALSE, 1, FALSE, FullHeaders, "noPeriods", 1),
                         Engine(FALSE, 1, FALSE, FullHeaders, "none", 1)}
                        \cup {Engine(FALSE, 0, FALSE, h, "full", 1) :
                                h \in HeaderVariants}
    /\ periodValue = <<>>
    /\ dataElements = <<>>
    /\ deIds = <<>>
    /\ ouDimension = <<>>
    /\ multiOrgUnitMode = FALSE
    /\ childOrgUnits = <<>>
    /\ calls = <<>>
    /\ result = [status |-> "pending"]
    /\ chartData = [built |-> FALSE]
    /\ tableData = <<>>
    /\ error = <<>>
    /\ sortConfig = [key |-> None, direction |-> "ascending"]
    /\ ComponentsIdle

SpecDash == InitDash /\ [][Next]_vars

(***************************************************************************)
(* Specification of period resolution: the inputs are the current date and *)
(* the token; one action applies getActualPeriod.                          *)
(***************************************************************************)
\* The variables of the fetch and of the dashboard before anything ran.
Untouched ==
    /\ periodValue = <<>>
    /\ caller = None
    /\ dataElements = <<>>
    /\ deIds = <<>>
    /\ ouDimension = <<>>
    /\ multiOrgUnitMode = FALSE
    /\ childOrgUnits = <<>>
    /\ calls = <<>>
    /\ result = [status |-> "pending"]
    /\ chartData = [built |-> FALSE]
    /\ tableData = <<>>
    /\ error = <<>>
    /\ sortConfig = [key |-> None, direction |-> "ascending"]
    /\ ComponentsIdle

InitPeriod ==
    /\ pc = "period"
    /\ now \in [year : Years, month : Months, day : {15}]
    /\ relativePeriod \in PeriodTokens \cup UnknownTokens
    /\ selectedDataElements = <<>>
    /\ orgUnit = [isNull |-> TRUE]
    /\ engine = [failChildren |-> FALSE]
    /\ Untouched

ResolvePeriod ==
    /\ pc = "period"
    /\ periodValue' = getActualPeriod(relativePeriod, now)
    /\ pc' = "resolved"
    /\ UNCHANGED <<componentVars, inputVars, fetchVars, dashVars>>

NextPeriod == ResolvePeriod

SpecPeriod == InitPeriod /\ [][NextPeriod]_vars

(***************************************************************************)
(* C1                                                                      *)
(***************************************************************************)
\* The YYYYMM id of the calendar month with index k = 12 * year + (month - 1).
MonthIndex(n) == 12 * n.year + (n.month - 1)
MonthOfIndex(k) == formatYearMonth(k \div 12, (k % 12) + 1)

Last12Resolved == pc = "resolved" /\ relativePeriod = "LAST_12_MONTHS"

AnalyticsCalls == SelectSeq(calls, LAMBDA c : c.resource = "analytics")

FetchBegun == pc \in {"awaitChildren", "awaitAnalytics", "fetched"} \/ calls # <<>>
                \/ result.status # "pending"

\* The selection C6 calls comparative.
ComparativeSelection ==
    \/ /\ ~orgUnit.isSpecial
       /\ orgUnit.includeChildOrgUnits
       /\ ~engine.failChildren
       /\ Len(engine.children) > 0
    \/ /\ orgUnit.isSpecial
       /\ orgUnit.id \in {<<"USER_ORGUNIT_CHILDREN">>, <<"USER_ORGUNIT_GRANDCHILDREN">>}

\* C6: the multiOrgUnitMode flag of the returned data is true exactly when
\* the selection is a concrete unit with includeChildOrgUnits whose child
\* query returned at least one child, or one of the special tokens
\* USER_ORGUNIT_CHILDREN / USER_ORGUNIT_GRANDCHILDREN; a concrete unit with
\* includeChildOrgUnits and no children is fetched with its own id as the ou
\* dimension and returns without error.
C6_MultiOrgUnitModeFlag ==
    /\ result.status = "returned" =>
          result.data.multiOrgUnitMode = ComparativeSelection
    /\ /\ Len(AnalyticsCalls) > 0
       /\ ~orgUnit.isSpecial
       /\ orgUnit.includeChildOrgUnits
       /\ ~engine.failChildren
       /\ Len(engine.children) = 0
       => /\ AnalyticsCalls[1].ou = orgUnit.id
          /\ ~multiOrgUnitMode
          /\ (pc = "fetched" /\ ~engine.failAnalytics => result.status = "returned")

C6_Witness ==
    /\ result.status = "returned"
    /\ ~orgUnit.isSpecial
    /\ orgUnit.includeChildOrgUnits
    /\ Len(childOrgUnits) = MaxChildren
    /\ result.data.multiOrgUnitMode
    /\ AnalyticsCalls[1].ou = Join([i \in 1..Len(childOrgUnits) |-> childOrgUnits[i].id])

\* The identifier an element carries: the string itself, or the first of
\* id, value, dataElementId that is present.
IdentifierOf(e) ==
    IF e.isString THEN e.str
    ELSE IF Truthy(e.id) THEN e.id
    ELSE IF Truthy(e.value) THEN e.value
    ELSE e.dataElementId

\* C7: whenever normalization succeeds (an analytics query is sent), the dx
\* dimension has exactly one non-empty bare identifier per element of the
\* array passed to fetchDataForElements, in input order.
C7_OneIdentifierPerElement ==
    \A i \in 1..Len(AnalyticsCalls) :
        /\ \A k \in 1..Len(dataElements) : Truthy(IdentifierOf(dataElements[k]))
        /\ Split(AnalyticsCalls[i].dx) = Map(dataElements, IdentifierOf)

\* No recognizable identifier in any element (the empty array included).
NoIdentifier(elements) ==
    \A k \in 1..Len(elements) : ~Truthy(IdentifierOf(elements[k]))

\* C8: when the array passed to fetchDataForElements is empty or no element
\* carries a recognizable identifier, the call throws and no query is sent.
C8_InvalidSelectionRejected ==
    FetchBegun /\ NoIdentifier(dataElements) =>
        /\ calls = <<>>
        /\ result.status = "thrown"

\* The three uniform shapes of C9 over non-empty identifiers.
UniformShape(elements) ==
    /\ Len(elements) > 0
    /\ \/ \A k \in 1..Len(elements) :
             elements[k].isString /\ Truthy(elements[k].str)
       \/ \A k \in 1..Len(elements) :
             ~elements[k].isString /\ Truthy(elements[k].id)
       \/ \A k \in 1..Len(elements) :
             /\ ~elements[k].isString
             /\ ~Truthy(elements[k].id)
             /\ Truthy(elements[k].value)

ValidPeriodAndOrgUnit ==
    /\ relativePeriod # ""
    /\ ~orgUnit.isNull
    /\ Truthy(orgUnit.id)

\* C9: a selection a1..an given as strings, as {id} objects or as {value}
\* objects produces the dx dimension a1;...;an, whether it is passed to
\* fetchDataForElements directly or pre-extracted by the dashboard and then
\* normalized again.
C9_ShapeIndependent ==
    pc # "idle" /\ UniformShape(selectedDataElements) /\ ValidPeriodAndOrgUnit =>
        /\ deIds = Join(Map(selectedDataElements, IdentifierOf))
        /\ \A i \in 1..Len(AnalyticsCalls) : AnalyticsCalls[i].dx = deIds
        /\ caller = "dashboard" =>
              dataElements = [k \in 1..Len(selectedDataElements) |->
                                 StringElement(IdentifierOf(selectedDataElements[k]))]

C9_Witness ==
    /\ caller = "dashboard"
    /\ Len(selectedDataElements) = MaxElements
    /\ \A k \in 1..Len(selectedDataElements) :
          ~selectedDataElements[k].isString /\ Truthy(selectedDataElements[k].value)
    /\ selectedDataElements[1] # selectedDataElements[2]
    /\ Len(AnalyticsCalls) = 1
    /\ AnalyticsCalls[1].dx = Join(Map(selectedDataElements, LAMBDA e : e.value))

\* A message names a column when the column's name is one of its words.
NamesColumn(message, column) == \E i \in 1..Len(message) : message[i] = column

MissingColumns == {h \in Range(FullHeaders) : h \notin Range(engine.headers)}

\* C10: a response that lacks a required column ends the fetch in an error
\* naming the column, and ends the dashboard's rendering in an error naming
\* the column.
C10_MissingColumnNamed ==
    /\ Len(AnalyticsCalls) > 0
    /\ ~engine.failAnalytics
    /\ MissingColumns # {}
    => /\ pc \in {"fetched", "rendered"} =>
             /\ result.status = "thrown"
             /\ \A h \in MissingColumns : NamesColumn(result.message, h)
       /\ pc = "rendered" =>
             \A h \in MissingColumns : NamesColumn(error, h)

(***************************************************************************)
(* Claims about the summary's time series and the chart                    *)
(***************************************************************************)
\* Calendar position of a concrete period id within its encoding: months
\* since year 0 for YYYYMM, quarters for YYYYQN, years for YYYY.
PeriodOrdinal(p) ==
    IF Len(p) = 6 /\ p[5] = "Q"
    THEN 4 * DigitsValue(SubSeq(p, 1, 4)) + DigitVal(p[6])
    ELSE IF Len(p) = 6
    THEN 12 * DigitsValue(SubSeq(p, 1, 4)) + DigitsValue(SubSeq(p, 5, 6))
    ELSE DigitsValue(p)

IsCalendarAscending(periods) ==
    \A i, j \in 1..Len(periods) :
        i < j => PeriodOrdinal(periods[i]) < PeriodOrdinal(periods[j])

\* The arrangement of the distinct periods of ps in ascending calendar order.
CalendarOrder(ps) ==
    CHOOSE q \in [1..Cardinality(Range(ps)) -> Range(ps)] :
        Range(q) = Range(ps) /\ IsCalendarAscending(q)

Returned == result.status = "returned" /\ result.data.headers = FullHeaders

Column(name) ==
    [i \in 1..Len(result.data.rows) |->
        Cell(result.data.rows[i], findIndex(result.data.headers, name))]

\* The periods of the rows of item dx that carry a number.
NumericPeriodsOf(dx) ==
    LET rows == SelectSeq(result.data.rows,
                    LAMBDA row : row[1] = dx /\ ~IsNaNParse(row[4]))
    IN  [i \in 1..Len(rows) |-> rows[i][2]]

TimeSeriesData ==
    IF ObjHas(result.data.summary, <<"timeSeriesData">>)
    THEN ObjGet(result.data.summary, <<"timeSeriesData">>)
    ELSE <<>>

\* C2: for every item, the points of summary.timeSeriesData are the item's
\* distinct periods in ascending calendar order, whatever the order in which
\* the rows arrived and whichever encoding (YYYYMM across a year boundary,
\* YYYYQN, YYYY) the periods have.
C2_TimeSeriesCalendarOrder ==
    Returned =>
        \A dx \in KnownItems :
            LET name == ResolveName(result.data.metaData, dx)
                periods == NumericPeriodsOf(dx)
            IN  Len(periods) > 0 =>
                    /\ ObjHas(TimeSeriesData, name)
                    /\ [j \in 1..Len(ObjGet(TimeSeriesData, name)) |->
                           ObjGet(TimeSeriesData, name)[j].period]
                       = [j \in 1..Cardinality(Range(periods)) |->
                             ResolvePeriodName(result.data.metaData,
                                               CalendarOrder(periods)[j])]

\* Rows of December after rows of the following January, and the series
\* lists December first.
C2_Witness ==
    /\ Returned
    /\ NumericPeriodsOf(<<"a">>) = <<formatYearMonth(Today.year, 1),
                                     formatYearMonth(Today.year - 1, 12)>>
    /\ ObjGet(TimeSeriesData, <<"ANC 1">>)[1].period
         = ServerName(formatYearMonth(Today.year - 1, 12))
    /\ Len(ObjGet(TimeSeriesData, <<"ANC 1">>)) = 2

NotOlderThanAYear(p) == PeriodOrdinal(p) >= 12 * (now.year - 1) + now.month

LabelsOf(periods) == [i \in 1..Len(periods) |-> result.data.metaData[periods[i]]]

UnitPeriodSum(ou, pe) ==
    LET rows == SelectSeq(result.data.rows, LAMBDA row : row[3] = ou /\ row[2] = pe)
    IN  SumSeq([i \in 1..Len(rows) |-> NumberOrZero(rows[i][4])])

OneDatasetPerOrgUnit ==
    LET units == Unique(Column("ou"))
    IN  /\ Len(chartData.datasets) = Len(units)
        /\ \A k \in 1..Len(units) :
              /\ chartData.datasets[k].by = "orgUnit"
              /\ chartData.datasets[k].id = units[k]
              /\ chartData.datasets[k].data =
                    [j \in 1..Len(chartData.periods) |->
                        UnitPeriodSum(units[k], chartData.periods[j])]

OneDatasetPerItem ==
    LET items == Unique(Column("dx"))
    IN  /\ Len(chartData.datasets) = Len(items)
        /\ \A k \in 1..Len(items) :
              /\ chartData.datasets[k].by = "item"
              /\ chartData.datasets[k].id = items[k]

\* C4 as claimed: with multiOrgUnitMode the chart has one dataset per
\* distinct org unit of the rows, for any number of units, each value the sum
\* over the items; without it, one dataset per distinct item.
C4_DatasetPerOrgUnit ==
    chartData.built =>
        IF result.data.multiOrgUnitMode THEN OneDatasetPerOrgUnit
        ELSE OneDatasetPerItem

\* C4: the chart has one dataset per distinct org unit, each value the sum
\* over the items, when multiOrgUnitMode is set and the rows hold at least
\* two distinct org units; otherwise it has one dataset per distinct item.
C4_DatasetGrouping ==
    chartData.built =>
        IF result.data.multiOrgUnitMode /\ Len(Unique(Column("ou"))) >= 2
        THEN OneDatasetPerOrgUnit
        ELSE OneDatasetPerItem

\* Comparative mode, rows of a single org unit and two items: two datasets,
\* one per item.
C4_Witness ==
    /\ chartData.built
    /\ result.data.multiOrgUnitMode
    /\ Len(Unique(Column("ou"))) = 1
    /\ Len(Unique(Column("dx"))) = 2
    /\ Len(chartData.datasets) = 2
    /\ \A k \in 1..2 : chartData.datasets[k].by = "item"

\* The rows of the combination of a dataset and a period.
SeriesRows(dataset, pe) ==
    SelectSeq(result.data.rows,
              LAMBDA row : /\ row[2] = pe
                           /\ IF dataset.by = "orgUnit" THEN row[3] = dataset.id
                              ELSE row[1] = dataset.id)

NoNumber(rows) == \A i \in 1..Len(rows) : IsNaNParse(rows[i][4])

\* C5: in every chart, each dataset has as many entries as there are labels,
\* and the entry of a combination of series and period with no row, or with
\* no numeric row, is 0.
C5_ZeroFilled ==
    chartData.built =>
        \A k \in 1..Len(chartData.datasets) :
            /\ Len(chartData.datasets[k].data) = Len(chartData.labels)
            /\ \A j \in 1..Len(chartData.periods) :
                  NoNumber(SeriesRows(chartData.datasets[k], chartData.periods[j]))
                      => chartData.datasets[k].data[j] = 0

\* A dataset with a period without row and a period whose row is not a
\* number, next to a dataset with a value.
C5_Witness ==
    /\ chartData.built
    /\ Len(chartData.labels) = MaxPeriods
    /\ \E k \in 1..Len(chartData.datasets) :
          /\ \E j \in 1..Len(chartData.periods) :
                /\ SeriesRows(chartData.datasets[k], chartData.periods[j]) = <<>>
                /\ chartData.datasets[k].data[j] = 0
          /\ \E j \in 1..Len(chartData.periods) :
                /\ SeriesRows(chartData.datasets[k], chartData.periods[j]) # <<>>
                /\ NoNumber(SeriesRows(chartData.datasets[k], chartData.periods[j]))
                /\ chartData.datasets[k].data[j] = 0
    /\ \E k \in 1..Len(chartData.datasets) :
          \E j \in 1..Len(chartData.periods) : chartData.datasets[k].data[j] > 0

(***************************************************************************)
(* Claims about empty responses and unresolved metadata                    *)
(***************************************************************************)
\* C11: a response with zero rows makes fetchDataForElements return rows =
\* [], hasData = false and an empty summary, and the dashboard then reports
\* it without entering the error state through which a malformed response
\* or a failed fetch is reported.
C11_NoDataIsNotAnError ==
    result.status = "returned" /\ Len(result.data.rows) = 0 =>
        /\ ~result.data.hasData
        /\ result.data.summary = <<>>
        /\ (pc = "rendered" => error = <<>>)

\* C12: when a period id of the rows has no entry in metaData.items, the
\* dashboard still builds the chart and the table and reaches no error state.
C12_UnresolvedMetadataContinues ==
    /\ pc = "rendered"
    /\ Returned
    /\ Len(result.data.rows) > 0
    => /\ error = <<>>
       /\ chartData.built
       /\ Len(tableData) = Len(result.data.rows)

(***************************************************************************)
(* Claims about non-numeric values and the statistics                      *)
(***************************************************************************)
Rows == result.data.rows

Summary == result.data.summary

\* The numbers carried by the rows that satisfy Keep, in arrival order.
NumbersOf(Keep(_)) ==
    LET rows == SelectSeq(Rows, LAMBDA row : Keep(row) /\ ~IsNaNParse(row[4]))
    IN  [i \in 1..Len(rows) |-> DigitsValue(LeadingDigits(rows[i][4]))]

\* The table row a response row is shown as when every name is resolved.
TableRowOf(row) ==
    [period |-> ServerName(row[2]),
     originalPeriodId |-> row[2],
     dataElement |-> ServerName(row[1]),
     orgUnit |-> ServerName(row[3]),
     value |-> row[4]]

\* C13: a row whose value is not a number is kept as a table row (the table
\* has exactly one row per response row), is left out of the count, min,
\* max and sum of its item's statistic, and stands for 0 in the chart.
C13_NonNumericRetained ==
    chartData.built =>
        /\ Len(tableData) = Len(Rows)
        /\ \A i \in 1..Len(Rows) :
              Cardinality({k \in 1..Len(tableData) : tableData[k] = TableRowOf(Rows[i])}) = 1
        /\ \A dx \in KnownItems :
              LET values == NumbersOf(LAMBDA row : row[1] = dx)
              IN  IF Len(values) = 0 THEN ~ObjHas(Summary, ServerName(dx))
                  ELSE /\ ObjHas(Summary, ServerName(dx))
                       /\ ObjGet(Summary, ServerName(dx)).count = Len(values)
                       /\ ObjGet(Summary, ServerName(dx)).min = MinSeq(values)
                       /\ ObjGet(Summary, ServerName(dx)).max = MaxSeq(values)
                       /\ ObjGet(Summary, ServerName(dx)).sum = toFixed2(SumSeq(values), 1)
        /\ \A k \in 1..Len(chartData.datasets) :
              \A j \in 1..Len(chartData.periods) :
                  LET rows == SeriesRows(chartData.datasets[k], chartData.periods[j])
                  IN  chartData.datasets[k].data[j] =
                          SumSeq([i \in 1..Len(rows) |->
                                     IF IsNaNParse(rows[i][4]) THEN 0
                                     ELSE DigitsValue(LeadingDigits(rows[i][4]))])

\* Item b with a numeric and a non-numeric row: two table rows, count 1.
C13_Witness ==
    /\ chartData.built
    /\ Len(SelectSeq(Rows, LAMBDA row : row[1] = <<"b">>)) = 2
    /\ \E i \in 1..Len(Rows) : Rows[i][1] = <<"b">> /\ IsNaNParse(Rows[i][4])
    /\ \E k \in 1..Len(tableData) :
          tableData[k].dataElement = ServerName(<<"b">>) /\ tableData[k].value = <<"n/a">>
    /\ ObjHas(Summary, ServerName(<<"b">>))
    /\ ObjGet(Summary, ServerName(<<"b">>)).count = 1

\* The hundredths a two-decimal string such as "11.67" stands for.
FixedHundredths(str) ==
    100 * DigitsValue(SubSeq(str, 1, Len(str) - 3))
        + DigitsValue(SubSeq(str, Len(str) - 1, Len(str)))

IsTwoDecimals(str) ==
    /\ Len(str) >= 4
    /\ str[Len(str) - 2] = "."
    /\ AllDigits(SubSeq(str, 1, Len(str) - 3))
    /\ AllDigits(SubSeq(str, Len(str) - 1, Len(str)))

\* h hundredths is numer / denom rounded to two decimals.
IsRounded(h, numer, denom) ==
    /\ 2 * (h * denom - 100 * numer) <= denom
    /\ 2 * (100 * numer - h * denom) <= denom

Ascending(values) ==
    LET n == Len(values)
        f == CHOOSE g \in [1..n -> 1..n] :
                 /\ \A i, j \in 1..n : i # j => g[i] # g[j]
                 /\ \A i \in 1..(n - 1) : values[g[i]] <= values[g[i + 1]]
    IN  [i \in 1..n |-> values[f[i]]]

\* The median of a non-empty list of integers, in hundredths.
MedianHundredths(values) ==
    LET n == Len(values)
        s == Ascending(values)
    IN  IF n % 2 = 1 THEN 100 * s[(n + 1) \div 2]
        ELSE 50 * (s[n \div 2] + s[(n \div 2) + 1])

HasMedianOf(stat, values) ==
    /\ IsTwoDecimals(stat.median)
    /\ FixedHundredths(stat.median) = MedianHundredths(values)

\* The statistic of item dx inside the breakdown called key, for the group
\* called group.
BreakdownStat(key, group, dx) ==
    ObjGet(ObjGet(ObjGet(Summary, key), group), ResolveName(result.data.metaData, dx))

\* C15: the median of every statistic (per item, per period, per org unit)
\* is the central value of the sorted numeric values for an odd count and
\* the mean of the two central values for an even count, whatever the
\* arrival order of the rows.
C15_Median ==
    result.status = "returned" /\ result.data.headers = FullHeaders =>
        \A dx \in KnownItems :
            /\ LET values == NumbersOf(LAMBDA row : row[1] = dx)
               IN  Len(values) > 0 =>
                       HasMedianOf(ObjGet(Summary, ResolveName(result.data.metaData, dx)),
                                   values)
            /\ \A pe \in Range(Column("pe")) :
                  LET values == NumbersOf(LAMBDA row : row[1] = dx /\ row[2] = pe)
                  IN  Len(values) > 0 =>
                          HasMedianOf(BreakdownStat(<<"periodBreakdown">>,
                                         ResolvePeriodName(result.data.metaData, pe), dx),
                                      values)
            /\ result.data.multiOrgUnitMode =>
                  \A ou \in Range(Column("ou")) :
                      LET values == NumbersOf(LAMBDA row : row[1] = dx /\ row[3] = ou)
                      IN  Len(values) > 0 =>
                              HasMedianOf(BreakdownStat(<<"orgUnitBreakdown">>,
                                             ResolveName(result.data.metaData, ou), dx),
                                          values)

\* Item a: three values arriving out of order, two of them in one period.
C15_Witness ==
    /\ result.status = "returned"
    /\ result.data.headers = FullHeaders
    /\ result.data.multiOrgUnitMode
    /\ LET values == NumbersOf(LAMBDA row : row[1] = <<"a">>)
       IN  /\ Len(values) = 3
           /\ values[1] > values[2]
           /\ values[3] > values[2]
           /\ values[3] < values[1]
           /\ FixedHundredths(ObjGet(Summary, ServerName(<<"a">>)).median) = 100 * values[3]
    /\ \E pe \in Range(Column("pe")) :
          LET values == NumbersOf(LAMBDA row : row[1] = <<"a">> /\ row[2] = pe)
          IN  /\ Len(values) = 2
              /\ 2 * FixedHundredths(BreakdownStat(<<"periodBreakdown">>,
                                        ServerName(pe), <<"a">>).median)
                    = 100 * (values[1] + values[2])

(***************************************************************************)
(* Claims about the single-period tokens                                   *)
(***************************************************************************)
IsMonthPeriod(p, year, month) ==
    /\ Len(p) = 6
    /\ AllDigits(p)
    /\ DigitsValue(SubSeq(p, 1, 4)) = year
    /\ DigitsValue(SubSeq(p, 5, 6)) = month

IsQuarterPeriod(p, year, quarter) ==
    /\ Len(p) = 6
    /\ AllDigits(SubSeq(p, 1, 4))
    /\ DigitsValue(SubSeq(p, 1, 4)) = year
    /\ p[5] = "Q"
    /\ IsDigit(p[6])
    /\ DigitVal(p[6]) = quarter

IsYearPeriod(p, year) ==
    /\ Len(p) = 4
    /\ AllDigits(p)
    /\ DigitsValue(p) = year

\* The quarter (1..4) of a month (1..12).
QuarterOf(month) == CHOOSE q \in 1..4 : 3 * q - 2 <= month /\ month <= 3 * q

\* C16: at every current month, THIS_MONTH and LAST_MONTH resolve to one
\* YYYYMM period, THIS_QUARTER and LAST_QUARTER to one YYYYQN period,
\* THIS_YEAR and LAST_YEAR to one YYYY period, each the calendar period the
\* token names; LAST_MONTH in January is December of the previous year and
\* LAST_QUARTER in the first quarter is Q4 of the previous year.
C16_SinglePeriodTokens ==
    pc = "resolved" /\ relativePeriod \in PeriodTokens \ {"LAST_12_MONTHS"} =>
        /\ Len(periodValue) = 1
        /\ LET p == periodValue[1]
               y == now.year
               m == now.month
               q == QuarterOf(now.month)
           IN  CASE relativePeriod = "THIS_MONTH" -> IsMonthPeriod(p, y, m)
                 [] relativePeriod = "LAST_MONTH" ->
                       IF m = 1 THEN IsMonthPeriod(p, y - 1, 12)
                       ELSE IsMonthPeriod(p, y, m - 1)
                 [] relativePeriod = "THIS_QUARTER" -> IsQuarterPeriod(p, y, q)
                 [] relativePeriod = "LAST_QUARTER" ->
                       IF q = 1 THEN IsQuarterPeriod(p, y - 1, 4)
                       ELSE IsQuarterPeriod(p, y, q - 1)
                 [] relativePeriod = "THIS_YEAR" -> IsYearPeriod(p, y)
                 [] relativePeriod = "LAST_YEAR" -> IsYearPeriod(p, y - 1)

\* LAST_QUARTER resolved in February: Q4 of the previous year.
C16_Witness ==
    /\ pc = "resolved"
    /\ relativePeriod = "LAST_QUARTER"
    /\ now.month = 2
    /\ Len(periodValue) = 1
    /\ IsQuarterPeriod(periodValue[1], now.year - 1, 4)

(***************************************************************************)
(* The dashboard with its table: the selections of the dashboard, followed *)
(* by any number of clicks on the column headers.                          *)
(***************************************************************************)
InitTable ==
    /\ pc = "idle"
    /\ now = Today
    /\ selectedDataElements = TwoItems
    /\ \/ \* one org unit
          /\ caller = "dashboard"
          /\ orgUnit = ConcreteUnit(FALSE)
          /\ relativePeriod \in {"LAST_12_MONTHS", "LAST_6_MONTHS", "LAST_4_QUARTERS",
                                 "LAST_5_YEARS"}
          /\ engine = Engine(FALSE, 0, FALSE, FullHeaders, "full", MaxRows)
       \/ \* several org units
          /\ caller = "dashboard"
          /\ orgUnit = ConcreteUnit(TRUE)
          /\ relativePeriod \in {"LAST_12_MONTHS", "LAST_6_MONTHS"}
          /\ engine = Engine(FALSE, MaxChildren, FALSE, FullHeaders, "full", MaxRows)
       \/ \* failing collaborators, either caller
          /\ caller \in {"direct", "dashboard"}
          /\ orgUnit = ConcreteUnit(TRUE)
          /\ relativePeriod = "LAST_6_MONTHS"
          /\ engine \in {Engine(TRUE, 0, FALSE, FullHeaders, "full", 1),
                         Engine(FALSE, 0, TRUE, FullHeaders, "full", 1)}
    /\ periodValue = <<>>
    /\ dataElements = <<>>
    /\ deIds = <<>>
    /\ ouDimension = <<>>
    /\ multiOrgUnitMode = FALSE
    /\ childOrgUnits = <<>>
    /\ calls = <<>>
    /\ result = [status |-> "pending"]
    /\ chartData = [built |-> FALSE]
    /\ tableData = <<>>
    /\ error = <<>>
    /\ sortConfig = [key |-> None, direction |-> "ascending"]
    /\ ComponentsIdle

NextTable ==
    \/ CallFetch
    \/ LoadData
    \/ ChildrenResolve
    \/ ChildrenReject
    \/ AnalyticsResolve
    \/ AnalyticsReject
    \/ Visualize
    \/ HandleSort

SpecTable == InitTable /\ [][NextTable]_vars

(***************************************************************************)
(* The displayed table (SpecTable)                                         *)
(***************************************************************************)
\* The rows the table shows.
Displayed == getSortedData(tableData, sortConfig, relativePeriod)

TableShown == pc \in {"rendered", "sorted"} /\ chartData.built /\ error = <<>>

\* The table before any click on a column header.
DefaultView == TableShown /\ pc = "rendered"

\* The response rows as table rows, in arrival order.
ArrivalRows == [i \in 1..Len(Rows) |-> TableRowOf(Rows[i])]

\* shown lists the rows of arrival, each exactly once, in the order given by
\* some rearrangement p of the arrival positions that satisfies InOrder.
IsArrangement(shown, InOrder(_, _)) ==
    /\ Len(shown) = Len(Rows)
    /\ \E p \in [1..Len(Rows) -> 1..Len(Rows)] :
          /\ \A i, j \in 1..Len(Rows) : i # j => p[i] # p[j]
          /\ \A i \in 1..Len(Rows) : shown[i] = TableRowOf(Rows[p[i]])
          /\ \A i, j \in 1..Len(Rows) : i < j => InOrder(Rows[p[i]], Rows[p[j]])

\* Response row a may stand before response row b in period order.
ChronologicalRows(a, b) == PeriodOrdinal(a[2]) <= PeriodOrdinal(b[2])

\* Response row a may stand before b in (org unit, item, period) order of the
\* identifiers.
OrgUnitFirstRows(a, b) ==
    \/ localeCompare(a[3], b[3]) < 0
    \/ /\ a[3] = b[3]
       /\ \/ localeCompare(a[1], b[1]) < 0
          \/ a[1] = b[1] /\ localeCompare(a[2], b[2]) <= 0

\* C17 as stated: the table has one row per response row; without an
\* explicit column sort its order is the arrival order of the response rows,
\* except under LAST_12_MONTHS, where it is ascending by period id; in
\* single-unit mode and in multi-org-unit mode.
C17_DefaultOrderIsArrival ==
    DefaultView =>
        IF relativePeriod = "LAST_12_MONTHS"
        THEN IsArrangement(Displayed, ChronologicalRows)
        ELSE Displayed = ArrivalRows

\* C17, amended: the table has one row per response row; without an explicit
\* column sort its order is ascending by period id under LAST_12_MONTHS;
\* otherwise it is the arrival order in single-unit mode and the order of
\* (org unit id, item id, period id) in multi-org-unit mode.
C17_DefaultOrder ==
    DefaultView =>
        IF relativePeriod = "LAST_12_MONTHS"
        THEN IsArrangement(Displayed, ChronologicalRows)
        ELSE IF result.data.multiOrgUnitMode
        THEN IsArrangement(Displayed, OrgUnitFirstRows)
        ELSE Displayed = ArrivalRows

\* Each case of the default order: arrival order kept although it is not the
\* order of the periods; rows rearranged by org unit; rows rearranged by
\* period under LAST_12_MONTHS.
C17_Witness ==
    /\ DefaultView
    /\ Len(Rows) >= 2
    /\ Displayed # ArrivalRows
    /\ relativePeriod # "LAST_12_MONTHS"
    /\ result.data.multiOrgUnitMode

C17_WitnessArrival ==
    /\ DefaultView
    /\ relativePeriod # "LAST_12_MONTHS"
    /\ ~result.data.multiOrgUnitMode
    /\ Len(Rows) >= 2
    /\ ~IsArrangement(Displayed, ChronologicalRows)

C17_WitnessLast12 ==
    /\ DefaultView
    /\ relativePeriod = "LAST_12_MONTHS"
    /\ Len(Rows) >= 2
    /\ Displayed # ArrivalRows

\* The value of the sorted column of a displayed row does not decrease
\* (ascending) or increase (descending) from row x to a later row y: numbers
\* by magnitude, text by the order of its characters.
ColumnInOrder(x, y, config) ==
    LET fx == Field(x, config.key)
        fy == Field(y, config.key)
        lower == IF config.direction = "ascending" THEN fx ELSE fy
        upper == IF config.direction = "ascending" THEN fy ELSE fx
    IN  IF config.key = "value" /\ ~IsNaNParse(fx) /\ ~IsNaNParse(fy)
        THEN parseFloat(lower) <= parseFloat(upper)
        ELSE ~StringLess(upper, lower)

\* Response row a may stand before b when the periods descend.
ReverseChronologicalRows(a, b) == PeriodOrdinal(a[2]) >= PeriodOrdinal(b[2])

\* The displayed rows are the response rows ordered by the sorted column.
OrderedByColumn ==
    /\ IsArrangement(Displayed, LAMBDA a, b : TRUE)
    /\ IF sortConfig.key = "period"
       THEN IF sortConfig.direction = "ascending"
            THEN IsArrangement(Displayed, ChronologicalRows)
            ELSE IsArrangement(Displayed, ReverseChronologicalRows)
       ELSE \A i, j \in 1..Len(Displayed) :
                i < j => ColumnInOrder(Displayed[i], Displayed[j], sortConfig)

\* A click on a column header.
Click == pc' = "sorted" /\ sortConfig' # sortConfig

\* C18: after a header click the displayed rows are ordered by the clicked
\* column, ascending on the first click and toggling on a repeated click of
\* the same column; the period column is ordered chronologically by the
\* period ids, ascending or descending, for every period selection.
C18_ExplicitSort ==
    [][Click =>
         /\ pc = "rendered" => sortConfig'.direction = "ascending"
         /\ pc = "sorted" /\ sortConfig'.key = sortConfig.key
               => sortConfig'.direction # sortConfig.direction
         /\ pc = "sorted" /\ sortConfig'.key # sortConfig.key
               => sortConfig'.direction = "ascending"
         /\ OrderedByColumn']_vars

\* C18, the period column alone after a click, outside LAST_12_MONTHS.
C18_PeriodColumnChronological ==
    TableShown /\ pc = "sorted" /\ sortConfig.key = "period"
               /\ relativePeriod # "LAST_12_MONTHS"
        => OrderedByColumn

\* C18, the first click alone.
C18_FirstClickAscending ==
    [][Click /\ pc = "rendered" => sortConfig'.direction = "ascending"]_vars

\* What the code does after a click: the direction toggles against the sort
\* in force (under LAST_12_MONTHS the period column is in force, ascending,
\* before any click), and the period column is ordered by period id only
\* under LAST_12_MONTHS, by the text of its display names otherwise.
ExplicitSortAsBuilt ==
    TableShown /\ pc = "sorted" =>
        IF sortConfig.key = "period" /\ relativePeriod # "LAST_12_MONTHS"
        THEN \A i, j \in 1..Len(Displayed) :
                i < j => ColumnInOrder(Displayed[i], Displayed[j], sortConfig)
        ELSE OrderedByColumn

(***************************************************************************)
(* Period tokens outside the enumeration (Spec)                            *)
(***************************************************************************)
\* The errors fetchDataForElements raises for its selection, its org unit
\* and its collaborators.
OtherFailures ==
    {Thrown(<<"At least one data element is required">>),
     Thrown(<<"Missing required parameter: orgUnit">>),
     Thrown(<<"orgUnit must have an id property">>),
     Wrapped(<<"Invalid data elements format">>),
     Wrapped(<<"Empty data element IDs. Please select at least one valid item.">>),
     Wrapped(<<"Network error">>)}

UnknownTokenFetch == relativePeriod \in UnknownTokens /\ FetchBegun

\* C19 as stated: a period token outside the enumeration ends the call with
\* an error raised to the caller and never appears as the pe dimension of an
\* analytics query.
C19_UnknownTokenIsFatal ==
    UnknownTokenFetch =>
        /\ \A i \in 1..Len(AnalyticsCalls) : AnalyticsCalls[i].pe # <<relativePeriod>>
        /\ pc = "fetched" => result.status = "thrown"

\* C19, amended: a period token outside the enumeration is not rejected; it
\* is the pe dimension of the analytics query, unchanged, and the call fails
\* only for its selection, its org unit or a failing query, and returns data
\* when the analytics query succeeds.
C19_UnknownTokenPassedThrough ==
    UnknownTokenFetch =>
        /\ \A i \in 1..Len(AnalyticsCalls) : AnalyticsCalls[i].pe = <<relativePeriod>>
        /\ result.status = "thrown" => result \in OtherFailures
        /\ pc = "fetched" /\ AnalyticsCalls # <<>> /\ ~engine.failAnalytics
              => result.status = "returned"

C19_Witness ==
    /\ UnknownTokenFetch
    /\ pc = "fetched"
    /\ result.status = "returned"
    /\ Len(AnalyticsCalls) = 1
    /\ AnalyticsCalls[1].pe = <<relativePeriod>>

(***************************************************************************)
(* Failing queries (Spec)                                                  *)
(***************************************************************************)
ChildCalls == SelectSeq(calls, LAMBDA c : c.resource = "organisationUnits")

\* No query is issued twice within the invocation.
EachQueryOnce == Len(ChildCalls) <= 1 /\ Len(AnalyticsCalls) <= 1

AnalyticsFailed == pc = "fetched" /\ AnalyticsCalls # <<>> /\ engine.failAnalytics

ChildQueryFailed == ChildCalls # <<>> /\ engine.failChildren /\ pc # "awaitChildren"

\* C20 as stated: each external query is issued at most once, and when the
\* analytics query or the child org-unit query fails the invocation ends
\* with one error raised to its caller and no data.
C20_FailurePropagates ==
    /\ EachQueryOnce
    /\ AnalyticsFailed => result.status = "thrown"
    /\ ChildQueryFailed =>
          /\ AnalyticsCalls = <<>>
          /\ pc = "fetched" /\ result.status = "thrown"

\* C20, amended: each external query is issued at most once; a failing
\* analytics query ends the invocation with one error raised to its caller
\* and no data; a failing child org-unit query raises nothing: the
\* invocation continues in single-unit mode with the selected unit as the ou
\* dimension and ends as its analytics query ends.
C20_AnalyticsFailurePropagates ==
    /\ EachQueryOnce
    /\ AnalyticsFailed => result = Wrapped(<<"Network error">>)
    /\ ChildQueryFailed =>
          /\ Len(AnalyticsCalls) = 1
          /\ AnalyticsCalls[1].ou = orgUnit.id
          /\ ouDimension = orgUnit.id
          /\ ~multiOrgUnitMode
          /\ pc = "fetched" /\ ~engine.failAnalytics =>
                result.status = "returned" /\ ~result.data.multiOrgUnitMode

\* Both failures happen: a failed child query followed by data, and a failed
\* analytics query.
C20_Witness ==
    /\ ChildQueryFailed
    /\ pc = "fetched"
    /\ result.status = "returned"
    /\ Len(calls) = 2

C20_WitnessAnalytics ==
    /\ AnalyticsFailed
    /\ result.status = "thrown"
    /\ Len(calls) >= 1

(***************************************************************************)
(* The org-unit dimension (Spec)                                           *)
(***************************************************************************)
\* The selection is a concrete unit with includeChildOrgUnits whose child
\* query returned at least one child.
ChildrenReturned ==
    /\ ~orgUnit.isNull
    /\ ~orgUnit.isSpecial
    /\ orgUnit.includeChildOrgUnits
    /\ ~engine.failChildren
    /\ Len(engine.children) >= 1

ChildIds == [i \in 1..Len(engine.children) |-> engine.children[i].id]

\* C21: for a concrete unit with includeChildOrgUnits whose child query
\* returns children c1..cn (n >= 1), the ou dimension sent to analytics is
\* c1;...;cn in the returned order, without the parent id, and the returned
\* childOrgUnits is that child list; in every other case the ou dimension is
\* the selection's own id or token and childOrgUnits is empty.
C21_OrgUnitDimension ==
    AnalyticsCalls # <<>> =>
        IF ChildrenReturned
        THEN /\ AnalyticsCalls[1].ou = Join(ChildIds)
             /\ Split(AnalyticsCalls[1].ou) = ChildIds
             /\ \A i \in 1..Len(ChildIds) : ChildIds[i] # orgUnit.id
             /\ result.status = "returned" =>
                   result.data.childOrgUnits = engine.children
        ELSE /\ AnalyticsCalls[1].ou = orgUnit.id
             /\ result.status = "returned" => result.data.childOrgUnits = <<>>

C21_Witness ==
    /\ ChildrenReturned
    /\ Len(engine.children) = 2
    /\ result.status = "returned"
    /\ AnalyticsCalls[1].ou = <<"c1", ";", "c2">>

C21_WitnessNoChildren ==
    /\ ~orgUnit.isNull
    /\ ~orgUnit.isSpecial
    /\ orgUnit.includeChildOrgUnits
    /\ ~engine.failChildren
    /\ Len(engine.children) = 0
    /\ result.status = "returned"

(***************************************************************************)
(* The order of the external calls (Spec)                                  *)
(***************************************************************************)
\* The errors raised by the validation of the parameters and by the
\* normalization of the items.
ValidationFailures ==
    (OtherFailures \cup {Thrown(<<"Missing required parameter: period">>)})
        \ {Wrapped(<<"Network error">>)}

\* The invocation has passed validation and normalization.
PastValidation ==
    \/ pc \in {"awaitChildren", "awaitAnalytics"}
    \/ pc \in {"fetched", "rendered"} /\ result \notin ValidationFailures
                                      /\ result.status # "pending"

ExpandsChildren == ~orgUnit.isNull /\ orgUnit.includeChildOrgUnits /\ ~orgUnit.isSpecial

C22_WitnessRejected ==
    /\ result \in ValidationFailures
    /\ pc = "fetched"
    /\ ~orgUnit.isNull
    /\ calls = <<>>

(***************************************************************************)
(* DataDashboard under selection changes: every change of the selection    *)
(* props runs the effect again and starts another loadData, while earlier  *)
(* invocations may still await their fetch.                                *)
(***************************************************************************)
MaxLoads == 3          \* most loadData invocations of one dashboard

\* The period selections the user moves between.
LoadPeriods == {"LAST_12_MONTHS", "LAST_6_MONTHS", "THIS_MONTH"}

\* loadData, lines 45-51 and 76-84: an invocation captures the props of its
\* render, clears the error and awaits its fetch.
StartLoad(period) ==
    /\ loads' = Append(loads, [period |-> period, done |-> FALSE, data |-> None])
    /\ error' = <<>>

\* The parent passes another selectedPeriod: the effect (line 99) runs.
ChangeSelection ==
    /\ pc = "mounted"
    /\ Len(loads) < MaxLoads
    /\ \E period \in LoadPeriods \ {relativePeriod} :
          /\ relativePeriod' = period
          /\ StartLoad(period)
    /\ UNCHANGED <<pc, now, selectedDataElements, orgUnit, engine, periodValue,
                   fetchVars, chartData, tableData, sortConfig, chat, selector,
                   storage>>

\* The fetch of one invocation resolves, in any order, and the invocation
\* goes on with the processDataForVisualization of its own render (lines
\* 86-89).
CompleteLoad ==
    /\ pc = "mounted"
    /\ \E k \in 1..Len(loads) :
          /\ ~loads[k].done
          /\ LET ids == ExtractIds(selectedDataElements)
                 dx == NormalizeItems(ids).deIds
                 requested == getActualPeriod(loads[k].period, now)
             IN  \E rs \in ServerRows(dx, ServerPeriods(loads[k].period, now, requested),
                                      orgUnit.id, engine.maxRows) :
                    /\ Len(rs) > 0
                    /\ LET d == MakeProcessedData(
                                    engine.headers, ServerItems(engine.meta, rs),
                                    [i \in 1..Len(rs) |-> MkRow(engine.headers, rs[i])],
                                    ids, FALSE, <<>>, orgUnit)
                       IN  /\ ProcessData(d, selectedDataElements, loads[k].period,
                                          orgUnit)
                           /\ loads' = [loads EXCEPT ![k] = [period |-> loads[k].period,
                                                             done |-> TRUE,
                                                             data |-> d]]
    /\ UNCHANGED <<pc, inputVars, periodValue, fetchVars, chat, selector, storage>>

InitLoads ==
    /\ pc = "mounted"
    /\ now = Today
    /\ caller = "dashboard"
    /\ selectedDataElements = TwoItems
    /\ orgUnit = ConcreteUnit(FALSE)
    /\ relativePeriod \in LoadPeriods
    /\ engine = Engine(FALSE, 0, FALSE, FullHeaders, "full", 1)
    /\ periodValue = <<>>
    /\ dataElements = <<>>
    /\ deIds = <<>>
    /\ ouDimension = <<>>
    /\ multiOrgUnitMode = FALSE
    /\ childOrgUnits = <<>>
    /\ calls = <<>>
    /\ result = [status |-> "pending"]
    /\ chartData = [built |-> FALSE]
    /\ tableData = <<>>
    /\ error = <<>>
    /\ sortConfig = [key |-> None, direction |-> "ascending"]
    /\ loads = <<[period |-> relativePeriod, done |-> FALSE, data |-> None]>>
    /\ chat = [dataSnapshot |-> [fetchedFor |-> None], submissions |-> <<>>, sent |-> <<>>]
    /\ selector = [includeChildOrgUnits |-> FALSE, pending |-> <<>>]
    /\ storage = [cache |-> <<>>, returned |-> <<>>]

NextLoads == ChangeSelection \/ CompleteLoad

SpecLoads == InitLoads /\ [][NextLoads]_vars

AllLoadsDone == Len(loads) > 0 /\ \A k \in 1..Len(loads) : loads[k].done

LatestLoad == loads[Len(loads)]

\* The pe cells of the rows of a response.
PeriodColumn(d) ==
    [i \in 1..Len(d.rows) |-> Cell(d.rows[i], findIndex(d.headers, "pe"))]

\* C23: once every fetch has completed, the chart data, table data and
\* error shown are those computed from the response to the most recent
\* selection, whatever the order in which the fetches completed.
C23_LatestSelectionShown ==
    pc = "mounted" /\ AllLoadsDone =>
        /\ LatestLoad.period = relativePeriod
        /\ error = <<>>
        /\ tableData = TableRows(LatestLoad.data, selectedDataElements,
                                 relativePeriod, orgUnit)
        /\ chartData.built
        /\ chartData.periods =
              ChartPeriods(PeriodColumn(LatestLoad.data), relativePeriod, now)

(***************************************************************************)
(* AIQuerySelection: query submissions, selection changes and fetch        *)
(* completions in any order.                                               *)
(***************************************************************************)
MaxQueries == 2        \* most handleQuerySubmit invocations of one chat

\* The data fetchDataForElements returns for a selection, as far as the chat
\* is concerned: which selection it was fetched for.
SnapshotFor(period) == [fetchedFor |-> period]

\* A call sendToAI(query, data, context): context.period and the data.
SentToAI(period, data) == [period |-> period, data |-> data]

\* handleQuerySubmit (lines 151-205) up to its first await, with the props
\* and the dataSnapshot of the current render: with a snapshot it goes
\* straight to sendToAI (line 244), without one it awaits the fetch.  The
\* Ctrl+Enter handler (lines 263-266) submits while an earlier query is
\* still loading.
SubmitQuery ==
    /\ pc = "chat"
    /\ Len(chat.submissions) < MaxQueries
    /\ IF chat.dataSnapshot.fetchedFor # None
       THEN chat' = [chat EXCEPT
                        !.submissions = Append(@, [period |-> relativePeriod,
                                                   stage |-> "sending"]),
                        !.sent = Append(@, SentToAI(relativePeriod,
                                                    chat.dataSnapshot))]
       ELSE chat' = [chat EXCEPT
                        !.submissions = Append(@, [period |-> relativePeriod,
                                                   stage |-> "fetching"])]
    /\ UNCHANGED <<pc, inputVars, periodValue, fetchVars, dashVars, loads, selector,
                   storage>>

\* The selection props change: the effect of lines 55-59 resets the snapshot.
ChatSelectionChange ==
    /\ pc = "chat"
    /\ \E period \in LoadPeriods \ {relativePeriod} : relativePeriod' = period
    /\ chat' = [chat EXCEPT !.dataSnapshot = [fetchedFor |-> None]]
    /\ UNCHANGED <<pc, now, selectedDataElements, orgUnit, engine, periodValue,
                   fetchVars, dashVars, loads, selector, storage>>

\* The fetch of a submission resolves (lines 205-218): the data becomes the
\* snapshot and goes to sendToAI with the context of the submission.
ChatFetchResolves ==
    /\ pc = "chat"
    /\ \E k \in 1..Len(chat.submissions) :
          /\ chat.submissions[k].stage = "fetching"
          /\ LET period == chat.submissions[k].period
             IN  chat' = [dataSnapshot |-> SnapshotFor(period),
                          submissions |-> [chat.submissions EXCEPT
                                              ![k].stage = "sending"],
                          sent |-> Append(chat.sent,
                                          SentToAI(period, SnapshotFor(period)))]
    /\ UNCHANGED <<pc, inputVars, periodValue, fetchVars, dashVars, loads, selector,
                   storage>>

\* The fetch of a submission rejects (lines 212-216): the handler returns.
ChatFetchRejects ==
    /\ pc = "chat"
    /\ \E k \in 1..Len(chat.submissions) :
          /\ chat.submissions[k].stage = "fetching"
          /\ chat' = [chat EXCEPT !.submissions[k].stage = "failed"]
    /\ UNCHANGED <<pc, inputVars, periodValue, fetchVars, dashVars, loads, selector,
                   storage>>

\* sendToAI returns (lines 244-255).
ChatAnswerArrives ==
    /\ pc = "chat"
    /\ \E k \in 1..Len(chat.submissions) :
          /\ chat.submissions[k].stage = "sending"
          /\ chat' = [chat EXCEPT !.submissions[k].stage = "answered"]
    /\ UNCHANGED <<pc, inputVars, periodValue, fetchVars, dashVars, loads, selector,
                   storage>>

InitChat ==
    /\ pc = "chat"
    /\ now = Today
    /\ caller = "direct"
    /\ selectedDataElements = TwoItems
    /\ orgUnit = ConcreteUnit(FALSE)
    /\ relativePeriod \in LoadPeriods
    /\ engine = Engine(FALSE, 0, FALSE, FullHeaders, "full", 1)
    /\ periodValue = <<>>
    /\ dataElements = <<>>
    /\ deIds = <<>>
    /\ ouDimension = <<>>
    /\ multiOrgUnitMode = FALSE
    /\ childOrgUnits = <<>>
    /\ calls = <<>>
    /\ result = [status |-> "pending"]
    /\ chartData = [built |-> FALSE]
    /\ tableData = <<>>
    /\ error = <<>>
    /\ sortConfig = [key |-> None, direction |-> "ascending"]
    /\ ComponentsIdle

NextChat ==
    \/ SubmitQuery
    \/ ChatSelectionChange
    \/ ChatFetchResolves
    \/ ChatFetchRejects
    \/ ChatAnswerArrives

SpecChat == InitChat /\ [][NextChat]_vars

\* C24: the data handed to sendToAI for a query was fetched for the
\* selection that was current when the query was submitted; a snapshot
\* fetched for an earlier selection is never used for a query on a later
\* selection.
C24_SnapshotMatchesSelection ==
    \A i \in 1..Len(chat.sent) : chat.sent[i].data.fetchedFor = chat.sent[i].period

\* What does hold: a snapshot fetched by a submission that is still
\* answered for its own selection.
FetchedDataMatchesOwnSubmission ==
    \A i \in 1..Len(chat.sent) :
        chat.sent[i].data.fetchedFor # chat.sent[i].period =>
            \E k \in 1..Len(chat.submissions) :
                chat.submissions[k].period = chat.sent[i].data.fetchedFor

(***************************************************************************)
(* DatasetSelector: the org-unit selection and the child-units checkbox.   *)
(* What it passes to onOrgUnitSelected is the orgUnit the parent holds.    *)
(***************************************************************************)
MaxPending == 1        \* most handleOrgUnitChange invocations awaiting a query

\* The units of the organisation unit tree.
TreeUnits == {<<"X">>, <<"c1">>, <<"c2">>}

\* Lines 424-432 and 332-340: the object passed to onOrgUnitSelected.
WithSettings(id, displayName, special, include) ==
    [isNull |-> FALSE, id |-> id, displayName |-> displayName,
     isSpecial |-> special, includeChildOrgUnits |-> include]

\* The checkbox onChange (line 1105): setIncludeChildOrgUnits(checked).
ToggleIncludeChildren ==
    /\ pc = "selector"
    /\ selector' = [selector EXCEPT !.includeChildOrgUnits = ~@]
    /\ UNCHANGED <<pc, inputVars, periodValue, fetchVars, dashVars, loads, chat,
                   storage>>

\* handleOrgUnitChange with the object the tree passes (lines 361-432): the
\* item selection is cleared and the unit goes up with the checkbox value of
\* the current render.
SelectTreeUnit ==
    /\ pc = "selector"
    /\ \E id \in TreeUnits :
          orgUnit' = WithSettings(id, ServerName(id), FALSE,
                                  selector.includeChildOrgUnits)
    /\ selectedDataElements' = <<>>
    /\ UNCHANGED <<pc, now, relativePeriod, engine, periodValue, fetchVars, dashVars,
                   loads, chat, selector, storage>>

\* handleOrgUnitChange with a bare id (lines 361-399): the item selection is
\* cleared and the handler awaits the query for the unit's display name.
SelectUnitById ==
    /\ pc = "selector"
    /\ Len(selector.pending) < MaxPending
    /\ \E id \in TreeUnits :
          selector' = [selector EXCEPT
                          !.pending = Append(@, [id |-> id,
                                                 include |-> selector.includeChildOrgUnits])]
    /\ selectedDataElements' = <<>>
    /\ UNCHANGED <<pc, now, relativePeriod, orgUnit, engine, periodValue, fetchVars,
                   dashVars, loads, chat, storage>>

\* The query of a pending handleOrgUnitChange returns (lines 400-432): the
\* unit goes up with the checkbox value the handler was created with.
UnitDetailsArrive ==
    /\ pc = "selector"
    /\ Len(selector.pending) > 0
    /\ LET head == selector.pending[1]
       IN  orgUnit' = WithSettings(head.id, ServerName(head.id), FALSE, head.include)
    /\ selector' = [selector EXCEPT !.pending = Tail(@)]
    /\ UNCHANGED <<pc, now, relativePeriod, selectedDataElements, engine, periodValue,
                   fetchVars, dashVars, loads, chat, storage>>

\* handleSpecialOrgUnitSelect (lines 306-340): one of the three buttons.
SelectSpecialUnit ==
    /\ pc = "selector"
    /\ \E token \in SpecialOrgUnits :
          orgUnit' = WithSettings(token, <<"User units">>, TRUE,
                                  selector.includeChildOrgUnits)
    /\ selectedDataElements' = <<>>
    /\ UNCHANGED <<pc, now, relativePeriod, engine, periodValue, fetchVars, dashVars,
                   loads, chat, selector, storage>>

InitSelector ==
    /\ pc = "selector"
    /\ now = Today
    /\ caller = "dashboard"
    /\ selectedDataElements \in {<<>>, TwoItems}
    /\ orgUnit = NoOrgUnit
    /\ relativePeriod \in LoadPeriods
    /\ engine = Engine(FALSE, 0, FALSE, FullHeaders, "full", 1)
    /\ periodValue = <<>>
    /\ dataElements = <<>>
    /\ deIds = <<>>
    /\ ouDimension = <<>>
    /\ multiOrgUnitMode = FALSE
    /\ childOrgUnits = <<>>
    /\ calls = <<>>
    /\ result = [status |-> "pending"]
    /\ chartData = [built |-> FALSE]
    /\ tableData = <<>>
    /\ error = <<>>
    /\ sortConfig = [key |-> None, direction |-> "ascending"]
    /\ ComponentsIdle

NextSelector ==
    \/ ToggleIncludeChildren
    \/ SelectTreeUnit
    \/ SelectUnitById
    \/ UnitDetailsArrive
    \/ SelectSpecialUnit

SpecSelector == InitSelector /\ [][NextSelector]_vars

\* C25: whenever an org unit is selected, the includeChildOrgUnits value
\* most recently passed to onOrgUnitSelected equals the current state of the
\* 'Include child organization units breakdown' checkbox.
C25_CheckboxReachesParent ==
    pc = "selector" /\ ~orgUnit.isNull =>
        orgUnit.includeChildOrgUnits = selector.includeChildOrgUnits

\* What does hold: the value passed is the value the checkbox had when the
\* handler that passed it was invoked; no handler runs on a toggle.
C25_ToggleLeavesParent ==
    [][selector'.includeChildOrgUnits # selector.includeChildOrgUnits
          => orgUnit' = orgUnit]_vars

(***************************************************************************)
(* The response cache (storage.js) as sendToOpenAI uses it                 *)
(***************************************************************************)
CacheLimit == 50       \* responses kept

\* query.trim().toLowerCase() on the letters of the modelled queries.
RECURSIVE TrimLeft(_)
TrimLeft(s) == IF Len(s) > 0 /\ s[1] = " " THEN TrimLeft(Tail(s)) ELSE s

RECURSIVE TrimRight(_)
TrimRight(s) == IF Len(s) > 0 /\ s[Len(s)] = " "
                THEN TrimRight(SubSeq(s, 1, Len(s) - 1)) ELSE s

trim(s) == TrimRight(TrimLeft(s))

toLowerCase(s) == [i \in 1..Len(s) |->
                      CASE s[i] = "A" -> "a" [] s[i] = "B" -> "b" [] OTHER -> s[i]]

\* JSON.stringify of a value that may be undefined inside an array.
JsonNull == <<"null">>

\* createCacheKey(query, data), lines 200-213.  The text that is encoded is
\* kept as the key: btoa is one-to-one, and dropping the characters + / =
\* from its output can only make more keys equal.  A property the object
\* does not have is left out by JSON.stringify (period) or read as absent
\* (orgUnit).
createCacheKey(query, data) ==
    [query |-> toLowerCase(trim(query)),
     elements |-> [i \in 1..Len(data.dataElements) |->
                      IF ~data.dataElements[i].isString /\ Truthy(data.dataElements[i].id)
                      THEN data.dataElements[i].id ELSE JsonNull],
     period |-> IF "period" \in DOMAIN data THEN data.period ELSE <<>>,
     orgUnit |-> IF "orgUnit" \in DOMAIN data /\ Truthy(data.orgUnit)
                 THEN data.orgUnit.id ELSE JsonNull]

\* The entry of the cache under a key, if any: cache[cacheKey].
CacheIndex(cache, key) ==
    IF \E i \in 1..Len(cache) : cache[i].key = key
    THEN CHOOSE i \in 1..Len(cache) : cache[i].key = key
    ELSE 0

\* cacheResponse, lines 103-121: the cache as a list in timestamp order; the
\* entry is written with the current timestamp and the oldest entries
\* beyond the limit are removed.
Stored(cache, key, response) ==
    LET others == SelectSeq(cache, LAMBDA e : e.key # key)
        all == Append(others, [key |-> key, response |-> response, expired |-> FALSE])
    IN  IF Len(all) > CacheLimit
        THEN SubSeq(all, Len(all) - CacheLimit + 1, Len(all))
        ELSE all

\* A request to sendToOpenAI: the query text and the data fetched for a
\* selection.
Queries == {<<"a">>, <<" ", "A">>, <<"b">>}
CachePeriods == {"THIS_MONTH", "LAST_MONTH"}
CacheUnits == {ConcreteUnit(FALSE), SpecialUnit(<<"USER_ORGUNIT">>, FALSE)}

\* What fetchDataForElements returns for a selection: one row of the first
\* item for the requested period.
DataOf(elements, period, ou) ==
    LET pe == getActualPeriod(period, Today)[1]
        unit == IF ou.isSpecial THEN <<"X">> ELSE ou.id
        r == [dx |-> <<"a">>, pe |-> pe, ou |-> unit,
              value |-> ServerCell(<<"a">>, pe, unit)]
    IN  MakeProcessedData(FullHeaders, ServerItems("full", <<r>>),
                          <<MkRow(FullHeaders, r)>>, elements, FALSE, <<>>, ou)

Requests ==
    {[query |-> q, period |-> p, orgUnit |-> u, data |-> DataOf(TwoItems, p, u)] :
        <<q, p, u>> \in Queries \X CachePeriods \X CacheUnits}

\* The answer of the model for a request: what it was asked and about which
\* selection.
AnswerTo(request) ==
    [query |-> request.query, period |-> request.period, orgUnit |-> request.orgUnit.id]

\* sendToOpenAI, lines 13-17: getCachedResponse(query, data), lines 137-165.
GetCachedResponse ==
    /\ pc = "cache"
    /\ \E request \in Requests :
          LET i == CacheIndex(storage.cache, createCacheKey(request.query, request.data))
              hit == i # 0 /\ ~storage.cache[i].expired
          IN  storage' = [storage EXCEPT
                             !.returned = <<[request |-> AnswerTo(request),
                                             hit |-> hit,
                                             response |-> IF hit
                                                          THEN storage.cache[i].response
                                                          ELSE AnswerTo(request)]>>]
    /\ UNCHANGED <<pc, inputVars, periodValue, fetchVars, dashVars, loads, chat,
                   selector>>

\* sendToOpenAI, line 76: cacheResponse(query, data, result) with the answer
\* to the request.
CacheResponse ==
    /\ pc = "cache"
    /\ \E request \in Requests :
          storage' = [storage EXCEPT
                         !.cache = Stored(@, createCacheKey(request.query, request.data),
                                          AnswerTo(request))]
    /\ UNCHANGED <<pc, inputVars, periodValue, fetchVars, dashVars, loads, chat,
                   selector>>

\* A day passes: every entry is older than the expiry of lines 153-158.
CacheExpires ==
    /\ pc = "cache"
    /\ \E i \in 1..Len(storage.cache) : ~storage.cache[i].expired
    /\ storage' = [storage EXCEPT
                      !.cache = [i \in 1..Len(@) |->
                                    [key |-> @[i].key, response |-> @[i].response,
                                     expired |-> TRUE]]]
    /\ UNCHANGED <<pc, inputVars, periodValue, fetchVars, dashVars, loads, chat,
                   selector>>

InitCache ==
    /\ pc = "cache"
    /\ now = Today
    /\ caller = "direct"
    /\ selectedDataElements = TwoItems
    /\ orgUnit = ConcreteUnit(FALSE)
    /\ relativePeriod = "THIS_MONTH"
    /\ engine = Engine(FALSE, 0, FALSE, FullHeaders, "full", 1)
    /\ periodValue = <<>>
    /\ dataElements = <<>>
    /\ deIds = <<>>
    /\ ouDimension = <<>>
    /\ multiOrgUnitMode = FALSE
    /\ childOrgUnits = <<>>
    /\ calls = <<>>
    /\ result = [status |-> "pending"]
    /\ chartData = [built |-> FALSE]
    /\ tableData = <<>>
    /\ error = <<>>
    /\ sortConfig = [key |-> None, direction |-> "ascending"]
    /\ ComponentsIdle

NextCache == GetCachedResponse \/ CacheResponse \/ CacheExpires

SpecCache == InitCache /\ [][NextCache]_vars

\* C26: getCachedResponse returns a stored response only if it was stored
\* for the same query text and the same data selection; two requests that
\* differ in period or in org unit never share a cached response.
C26_CacheKeyedBySelection ==
    \A i \in 1..Len(storage.returned) :
        storage.returned[i].hit =>
            /\ toLowerCase(trim(storage.returned[i].response.query))
                  = toLowerCase(trim(storage.returned[i].request.query))
            /\ storage.returned[i].response.period = storage.returned[i].request.period
            /\ storage.returned[i].response.orgUnit = storage.returned[i].request.orgUnit

\* What does hold: a response is returned only for the query text it was
\* stored for, up to case and surrounding blanks.
C26_CacheKeyedByQuery ==
    \A i \in 1..Len(storage.returned) :
        storage.returned[i].hit =>
            toLowerCase(trim(storage.returned[i].response.query))
                = toLowerCase(trim(storage.returned[i].request.query))

(***************************************************************************)
(* LAST_12_MONTHS against the one-year-ago filter (SpecPeriod)             *)
(***************************************************************************)
IsLeapYear(y) == y % 4 = 0 /\ (y % 100 # 0 \/ y % 400 = 0)

\* The days of the month of date n.
DaysOfMonth(n) ==
    1..(CASE n.month = 2 -> IF IsLeapYear(n.year) THEN 29 ELSE 28
          [] n.month \in {4, 6, 9, 11} -> 30
          [] OTHER -> 31)

Last12Requested == pc = "resolved" /\ relativePeriod = "LAST_12_MONTHS"

\* C27: every YYYYMM period that getActualPeriod('LAST_12_MONTHS') requests
\* passes the dashboard's one-year-ago filter evaluated at the same date, on
\* any day of the month, so a response that holds the requested months
\* keeps all of them as chart periods, the periods of the table.
C27_RequestedMonthsPassFilter ==
    Last12Requested =>
        \A day \in DaysOfMonth(now) :
            LET today == [year |-> now.year, month |-> now.month, day |-> day]
            IN  /\ \A i \in 1..Len(periodValue) :
                      /\ IsYYYYMMLike(periodValue[i])
                      /\ parseInt(periodValue[i]) >= getOneYearAgoAsYYYYMM(today)
                /\ Range(ChartPeriods(periodValue, "LAST_12_MONTHS", today))
                      = Range(periodValue)
                /\ \A k \in 1..Len(periodValue) :
                      Range(ChartPeriods(SubSeq(periodValue, k, Len(periodValue)),
                                         "LAST_12_MONTHS", today))
                         = Range(SubSeq(periodValue, k, Len(periodValue)))

\* The request of a leap February, whose one-year-ago date is 1 March.
C27_Witness ==
    /\ Last12Requested
    /\ now.month = 2
    /\ IsLeapYear(now.year)
    /\ Len(periodValue) = 12
    /\ getOneYearAgoAsYYYYMM([year |-> now.year, month |-> 2, day |-> 29])
          = parseInt(periodValue[12])

(***************************************************************************)
(* getPeriodDateRange against getActualPeriod (SpecPeriod)                 *)
(***************************************************************************)
\* new Date(year, monthIndex, day) for day 0 or a day of the month: a month
\* index outside 0..11 moves the year, day 0 is the last day of the month
\* before.
JsDate(year, monthIndex, day) ==
    LET months == 12 * year + monthIndex - (IF day = 0 THEN 1 ELSE 0)
        y == months \div 12
        m == (months % 12) + 1
    IN  [year |-> y, month |-> m,
         day |-> IF day = 0
                 THEN CASE m = 2 -> IF IsLeapYear(y) THEN 29 ELSE 28
                        [] m \in {4, 6, 9, 11} -> 30
                        [] OTHER -> 31
                 ELSE day]

\* formatDate(date), lines 446-448
formatDate(date) ==
    ToStr(date.year) \o <<"-">> \o PadStart2(ToStr(date.month)) \o <<"-">>
        \o PadStart2(ToStr(date.day))

DateRange(startDate, endDate) ==
    [startDate |-> formatDate(startDate), endDate |-> formatDate(endDate)]

\* Mutant of getPeriodDateRange: every token gets the range of the default
\* branch.
getPeriodDateRangeDefault(period, n) ==
    DateRange(JsDate(n.year, n.month - 1, 1), JsDate(n.year, n.month, 0))

\* getPeriodDateRange(period) evaluated at date n (lines 405-455); getMonth()
\* is n.month - 1.
getPeriodDateRange(period, n) ==
    LET fullYear == n.year
        getMonth == n.month - 1
        quarterMonth == (getMonth \div 3) * 3
        lastQuarterMonth == ((getMonth - 3) \div 3) * 3
    IN  CASE period = "THIS_MONTH" ->
                DateRange(JsDate(fullYear, getMonth, 1), JsDate(fullYear, getMonth + 1, 0))
          [] period = "LAST_MONTH" ->
                DateRange(JsDate(fullYear, getMonth - 1, 1), JsDate(fullYear, getMonth, 0))
          [] period = "THIS_QUARTER" ->
                DateRange(JsDate(fullYear, quarterMonth, 1),
                          JsDate(fullYear, quarterMonth + 3, 0))
          [] period = "LAST_QUARTER" ->
                DateRange(JsDate(fullYear, lastQuarterMonth, 1),
                          JsDate(fullYear, lastQuarterMonth + 3, 0))
          [] period = "THIS_YEAR" ->
                DateRange(JsDate(fullYear, 0, 1), JsDate(fullYear, 11, 31))
          [] period = "LAST_YEAR" ->
                DateRange(JsDate(fullYear - 1, 0, 1), JsDate(fullYear - 1, 11, 31))
          [] period = "LAST_12_MONTHS" ->
                DateRange(JsDate(fullYear, getMonth - 11, 1),
                          JsDate(fullYear, getMonth + 1, 0))
          [] OTHER ->
                DateRange(JsDate(fullYear, getMonth, 1), JsDate(fullYear, getMonth + 1, 0))

\* The first and the last calendar day of a period id (YYYYMM, YYYYQn, YYYY).
FirstMonthOf(p) ==
    IF Len(p) = 6 /\ p[5] = "Q" THEN 3 * DigitVal(p[6]) - 2
    ELSE IF Len(p) = 6 THEN parseInt(SubSeq(p, 5, 6))
    ELSE 1

LastMonthOf(p) ==
    IF Len(p) = 6 /\ p[5] = "Q" THEN 3 * DigitVal(p[6])
    ELSE IF Len(p) = 6 THEN parseInt(SubSeq(p, 5, 6))
    ELSE 12

YearOf(p) == parseInt(SubSeq(p, 1, 4))

FirstDayOf(p) == [year |-> YearOf(p), month |-> FirstMonthOf(p), day |-> 1]

LastDayOf(p) ==
    LET m == [year |-> YearOf(p), month |-> LastMonthOf(p), day |-> 1]
    IN  [m EXCEPT !.day = CHOOSE d \in DaysOfMonth(m) : \A e \in DaysOfMonth(m) : e <= d]

DayNumber(date) == 10000 * date.year + 100 * date.month + date.day

\* The resolved periods follow one another without a gap.
Contiguous(periods) ==
    \A p \in Range(periods) :
        \/ \A q \in Range(periods) : DayNumber(FirstDayOf(q)) >= DayNumber(FirstDayOf(p))
        \/ \E q \in Range(periods) :
              LET last == LastDayOf(q)
              IN  FirstDayOf(p) = IF last.month = 12
                                  THEN [year |-> last.year + 1, month |-> 1, day |-> 1]
                                  ELSE [year |-> last.year, month |-> last.month + 1,
                                        day |-> 1]

\* C28: for each of the seven period tokens and every current year and
\* month, getPeriodDateRange returns as startDate and endDate the first and
\* the last calendar day of exactly the period or periods that
\* getActualPeriod resolves for the token, and startDate is never after
\* endDate.
C28_DateRangeMatchesPeriods ==
    pc = "resolved" /\ relativePeriod \in PeriodTokens =>
        LET range == getPeriodDateRange(relativePeriod, now)
        IN  /\ Contiguous(periodValue)
            /\ \E p \in Range(periodValue) :
                  /\ range.startDate = formatDate(FirstDayOf(p))
                  /\ \A q \in Range(periodValue) :
                        DayNumber(FirstDayOf(p)) <= DayNumber(FirstDayOf(q))
            /\ \E p \in Range(periodValue) :
                  /\ range.endDate = formatDate(LastDayOf(p))
                  /\ \A q \in Range(periodValue) :
                        DayNumber(LastDayOf(q)) <= DayNumber(LastDayOf(p))
            /\ DateValue(range.startDate) >= 0
            /\ DateValue(range.startDate) <= DateValue(range.endDate)

\* The rollovers: LAST_MONTH in January, LAST_QUARTER in the first quarter
\* and LAST_12_MONTHS across a year boundary.
C28_Witness ==
    /\ pc = "resolved"
    /\ relativePeriod = "LAST_QUARTER"
    /\ now.month = 2
    /\ getPeriodDateRange(relativePeriod, now).startDate
          = ToStr(now.year - 1) \o <<"-", "1", "0", "-", "0", "1">>
    /\ getPeriodDateRange(relativePeriod, now).endDate
          = ToStr(now.year - 1) \o <<"-", "1", "2", "-", "3", "1">>

C28_WitnessLastMonth ==
    /\ pc = "resolved"
    /\ relativePeriod = "LAST_MONTH"
    /\ now.month = 1
    /\ getPeriodDateRange(relativePeriod, now).startDate
          = ToStr(now.year - 1) \o <<"-", "1", "2", "-", "0", "1">>

C28_WitnessLast12 ==
    /\ pc = "resolved"
    /\ relativePeriod = "LAST_12_MONTHS"
    /\ now.month = 3
    /\ getPeriodDateRange(relativePeriod, now).startDate
          = ToStr(now.year - 1) \o <<"-", "0", "4", "-", "0", "1">>
    /\ getPeriodDateRange(relativePeriod, now).endDate
          = ToStr(now.year) \o <<"-", "0", "3", "-", "3", "1">>

(***************************************************************************)
(* calculateSummary on its own: every response of a few rows, under every  *)
(* naming the server's metaData may carry (SpecSummary)                    *)
(***************************************************************************)
MaxSummaryRows == 2   \* most rows of a response handed to calculateSummary

SummaryPeriods == {<<"2", "0", "2", "4", "0", "1">>, <<"2", "0", "2", "4", "0", "2">>}
SummaryUnits == {<<"c1">>, <<"c2">>}
SummaryCells == {<<"5">>, <<"n/a">>}

\* The keys calculateSummary adds to the summary object next to the
\* per-item statistics (lines 601, 646, 693).
BreakdownKeys == {<<"orgUnitBreakdown">>, <<"periodBreakdown">>, <<"timeSeriesData">>}

MetaNamings ==
    {"distinct", "none", "sharedItems", "sharedUnits", "sharedPeriods"}
        \cup {"orgUnitBreakdown", "periodBreakdown", "timeSeriesData"}

\* metaData.items[id].name under a naming: distinct names, two items, two
\* units or two periods of one name, or the item "a" named like a key of
\* the summary.
NamedAs(naming, id) ==
    CASE naming = "sharedItems" /\ id \in KnownItems -> <<"ANC">>
      [] naming = "sharedUnits" /\ id \in SummaryUnits -> <<"Clinic">>
      [] naming = "sharedPeriods" /\ id \in SummaryPeriods -> <<"January 2024">>
      [] <<naming>> \in BreakdownKeys /\ id = <<"a">> -> <<naming>>
      [] OTHER -> ServerName(id)

SummaryItems(naming, rows) ==
    LET ids == UNION {{r.dx, r.pe, r.ou} : r \in Range(rows)}
    IN  IF naming = "none" THEN [id \in {} |-> <<>>]
        ELSE [id \in ids |-> NamedAs(naming, id)]

RECURSIVE SummaryRowSequences(_)
SummaryRowSequences(n) ==
    IF n = 0 THEN {<<>>}
    ELSE LET shorter == SummaryRowSequences(n - 1)
         IN  shorter \cup
             {Append(rs, r) : <<rs, r>> \in
                 {rs \in shorter : Len(rs) = n - 1} \X
                 [dx : KnownItems, pe : SummaryPeriods, ou : SummaryUnits,
                  value : SummaryCells]}

\* The response handed to calculateSummary (dhis2Data.js:228-231).
SummaryInput(rows, naming) ==
    [headers |-> FullHeaders,
     rows |-> rows,
     items |-> SummaryItems(naming, rows)]

InitSummary ==
    /\ pc = "summary"
    /\ now = Today
    /\ caller = "direct"
    /\ selectedDataElements = TwoItems
    /\ orgUnit = ConcreteUnit(FALSE)
    /\ relativePeriod = "THIS_MONTH"
    /\ \E rows \in SummaryRowSequences(MaxSummaryRows), naming \in MetaNamings :
          engine = SummaryInput(rows, naming)
    /\ multiOrgUnitMode \in BOOLEAN
    /\ periodValue = <<>>
    /\ dataElements = <<>>
    /\ deIds = <<>>
    /\ ouDimension = <<>>
    /\ childOrgUnits = <<>>
    /\ calls = <<>>
    /\ result = [status |-> "pending"]
    /\ chartData = [built |-> FALSE]
    /\ tableData = <<>>
    /\ error = <<>>
    /\ sortConfig = [key |-> None, direction |-> "ascending"]
    /\ ComponentsIdle

\* summary: calculateSummary(headers, rows, metaData, multiOrgUnitMode)
Summarize ==
    /\ pc = "summary"
    /\ pc' = "summarized"
    /\ result' = [status |-> "returned",
                  data |-> [summary |->
                      calculateSummary(engine.headers,
                          [i \in 1..Len(engine.rows) |->
                              MkRow(engine.headers, engine.rows[i])],
                          engine.items, multiOrgUnitMode)]]
    /\ UNCHANGED <<componentVars, inputVars, periodValue, caller, dataElements,
                   deIds, ouDimension, multiOrgUnitMode, childOrgUnits, calls,
                   dashVars>>

NextSummary == Summarize

SpecSummary == InitSummary /\ [][NextSummary]_vars

\* The rows of the response that carry a number.
NumericRows == {r \in Range(engine.rows) : ~IsNaNParse(r.value)}

ItemName(id) == ResolveName(engine.items, id)
PeriodName(id) == ResolvePeriodName(engine.items, id)

\* Distinct ids of one kind have distinct display names.
DistinctDisplayNames ==
    /\ \A r, q \in Range(engine.rows) :
          /\ r.dx # q.dx => ItemName(r.dx) # ItemName(q.dx)
          /\ r.ou # q.ou => ItemName(r.ou) # ItemName(q.ou)
          /\ r.pe # q.pe => PeriodName(r.pe) # PeriodName(q.pe)

\* No item of the response is named like a key of the summary.
NoBreakdownKeyName ==
    \A r \in Range(engine.rows) : ItemName(r.dx) \notin BreakdownKeys

\* summary[name] is still the statistic of an item: the key is there and no
\* breakdown was stored under it afterwards.
HoldsStatistic(summary, name) ==
    /\ ObjHas(summary, name)
    /\ name \notin {<<"periodBreakdown">>, <<"timeSeriesData">>}
    /\ name = <<"orgUnitBreakdown">> => ~multiOrgUnitMode

\* The sum of the counts the item has over the groups of a breakdown.
CountOver(breakdown, name) ==
    SumSeq([i \in 1..Len(breakdown) |->
               IF ObjHas(breakdown[i].val, name)
               THEN ObjGet(breakdown[i].val, name).count ELSE 0])

AllCountsPositive(breakdown) ==
    \A i \in 1..Len(breakdown) :
        \A j \in 1..Len(breakdown[i].val) : breakdown[i].val[j].val.count >= 1

CountsConsistent ==
    LET summary == result.data.summary
    IN  /\ \A id \in {r.dx : r \in NumericRows} :
              /\ HoldsStatistic(summary, ItemName(id))
              /\ ObjGet(summary, ItemName(id)).count >= 1
              /\ ObjGet(summary, ItemName(id)).count
                    = Cardinality({i \in 1..Len(engine.rows) :
                                      /\ engine.rows[i] \in NumericRows
                                      /\ engine.rows[i].dx = id})
              /\ ObjGet(summary, ItemName(id)).count
                    = CountOver(ObjGet(summary, <<"periodBreakdown">>), ItemName(id))
              /\ multiOrgUnitMode =>
                    ObjGet(summary, ItemName(id)).count
                       = CountOver(ObjGet(summary, <<"orgUnitBreakdown">>), ItemName(id))
        /\ NumericRows # {} =>
              AllCountsPositive(ObjGet(summary, <<"periodBreakdown">>))
        /\ NumericRows # {} /\ multiOrgUnitMode =>
              AllCountsPositive(ObjGet(summary, <<"orgUnitBreakdown">>))
        /\ ~multiOrgUnitMode => ~ObjHas(summary, <<"orgUnitBreakdown">>)

\* C29: in every summary of calculateSummary, when distinct ids have
\* distinct display names and every row carries a period and an org unit,
\* the per-item count of each item equals the sum of its counts over the
\* periodBreakdown entries and, in multi-org-unit mode, over the
\* orgUnitBreakdown entries; every statistic has count >= 1; and
\* orgUnitBreakdown is present only in multi-org-unit mode.
C29_CountsConsistent ==
    pc = "summarized" /\ DistinctDisplayNames => CountsConsistent

\* What holds as built: the same, for responses in which no item is named
\* like a key of the summary.
C29_CountsConsistentOtherNames ==
    pc = "summarized" /\ DistinctDisplayNames /\ NoBreakdownKeyName => CountsConsistent

\* The number of statistics stored in the groups of a breakdown.
StatisticsIn(breakdown) ==
    SumSeq([i \in 1..Len(breakdown) |-> Len(breakdown[i].val)])

NothingMerged ==
    LET summary == result.data.summary
        perItem == {k \in Range(ObjKeys(summary)) : k \notin BreakdownKeys}
    IN  /\ Cardinality(perItem) = Cardinality({r.dx : r \in NumericRows})
        /\ NumericRows # {} =>
              LET breakdown == ObjGet(summary, <<"periodBreakdown">>)
              IN  /\ Len(breakdown) = Cardinality({r.pe : r \in NumericRows})
                  /\ StatisticsIn(breakdown)
                        = Cardinality({<<r.pe, r.dx>> : r \in NumericRows})
        /\ NumericRows # {} /\ multiOrgUnitMode =>
              LET breakdown == ObjGet(summary, <<"orgUnitBreakdown">>)
              IN  /\ Len(breakdown) = Cardinality({r.ou : r \in NumericRows})
                  /\ StatisticsIn(breakdown)
                        = Cardinality({<<r.ou, r.dx>> : r \in NumericRows})

\* C30: calculateSummary never merges or overwrites the statistics of
\* distinct ids: the summary has as many per-item entries as there are
\* distinct item ids with a numeric row, and likewise per period and per org
\* unit inside the breakdowns, even when two ids share a display name or an
\* item is named orgUnitBreakdown, periodBreakdown or timeSeriesData.
C30_NothingMerged ==
    pc = "summarized" => NothingMerged

\* What holds as built: nothing is merged when distinct ids have distinct
\* display names and no item is named like a key of the summary.
C30_NothingMergedDistinctNames ==
    pc = "summarized" /\ DistinctDisplayNames /\ NoBreakdownKeyName => NothingMerged

====
